---- MODULE Spec2Model ----
(***************************************************************************)
(* Invio: the invoice totals engine (calculateInvoiceTotals in             *)
(* backend/src/database/init.ts and calculatePerLineTotals in the invoice  *)
(* controller).                                                            *)
(*                                                                         *)
(* The engine computes on JavaScript Numbers, and its rounding helper r2   *)
(* is Math.round(n * 100) / 100.  The properties of interest are decided   *)
(* by the binary64 rounding of every single operation, so a Number is      *)
(* modelled as what it is: a finite IEEE-754 binary64 value s * m * 2^e    *)
(* with a 53-bit significand, and +, -, *, / round to nearest, ties to     *)
(* even.  Significands do not fit a TLC integer, so they are little-endian *)
(* sequences of 15-bit limbs.  Not modelled: the sign of zero (-0 and +0   *)
(* are one value; the engine never divides by a zero), subnormals,         *)
(* overflow to Infinity (the inputs are bounded), and NaN as the result of *)
(* an operation on Numbers that are not NaN (the engine computes none).    *)
(*                                                                         *)
(* After the engine: the product options controller (categories and units  *)
(* of products) and createInvoice, on the rows of the database.            *)
(***************************************************************************)
EXTENDS Integers, Sequences, FiniteSets, TLC

----------------------------------------------------------------------------
(* Arbitrary-size naturals: <<>> is 0, limb i has weight LimbBase^(i-1),   *)
(* the last limb of a non-empty sequence is not 0.                         *)

RECURSIVE NatBitLen(_)
NatBitLen(n) == IF n = 0 THEN 0 ELSE 1 + NatBitLen(n \div 2)

LimbBase == 2^15
LimbBits == NatBitLen(LimbBase) - 1

RECURSIVE BNNorm(_)
BNNorm(a) ==
    IF a = <<>> THEN <<>>
    ELSE IF a[Len(a)] = 0 THEN BNNorm(SubSeq(a, 1, Len(a) - 1))
    ELSE a

RECURSIVE BNFromNat(_)
BNFromNat(n) ==
    IF n = 0 THEN <<>> ELSE <<n % LimbBase>> \o BNFromNat(n \div LimbBase)

RECURSIVE BNToNat(_)
BNToNat(a) ==
    IF a = <<>> THEN 0 ELSE a[1] + LimbBase * BNToNat(Tail(a))

Limb(a, i) == IF i <= Len(a) THEN a[i] ELSE 0

RECURSIVE BNCmpFrom(_, _, _)
BNCmpFrom(a, b, i) ==
    IF i = 0 THEN 0
    ELSE IF a[i] < b[i] THEN -1
    ELSE IF a[i] > b[i] THEN 1
    ELSE BNCmpFrom(a, b, i - 1)

\* -1, 0, 1 as a < b, a = b, a > b
BNCmp(a, b) ==
    IF Len(a) < Len(b) THEN -1
    ELSE IF Len(a) > Len(b) THEN 1
    ELSE BNCmpFrom(a, b, Len(a))

RECURSIVE BNAddFrom(_, _, _, _)
BNAddFrom(a, b, i, c) ==
    IF i > Len(a) /\ i > Len(b)
    THEN IF c = 0 THEN <<>> ELSE <<c>>
    ELSE LET s == Limb(a, i) + Limb(b, i) + c
         IN  <<s % LimbBase>> \o BNAddFrom(a, b, i + 1, s \div LimbBase)

BNAdd(a, b) == BNAddFrom(a, b, 1, 0)

RECURSIVE BNSubFrom(_, _, _, _)
BNSubFrom(a, b, i, brw) ==
    IF i > Len(a) THEN <<>>
    ELSE LET d == a[i] - Limb(b, i) - brw
         IN  IF d < 0
             THEN <<d + LimbBase>> \o BNSubFrom(a, b, i + 1, 1)
             ELSE <<d>> \o BNSubFrom(a, b, i + 1, 0)

\* a - b for a >= b
BNSub(a, b) == BNNorm(BNSubFrom(a, b, 1, 0))

RECURSIVE BNMulSmallFrom(_, _, _, _)
BNMulSmallFrom(a, d, i, c) ==
    IF i > Len(a)
    THEN IF c = 0 THEN <<>> ELSE <<c>>
    ELSE LET p == a[i] * d + c
         IN  <<p % LimbBase>> \o BNMulSmallFrom(a, d, i + 1, p \div LimbBase)

\* a * d for a limb-sized d
BNMulSmall(a, d) == IF d = 0 THEN <<>> ELSE BNMulSmallFrom(a, d, 1, 0)

\* low + rest * LimbBase
BNMulUp(low, rest) == IF rest = <<>> THEN low ELSE BNAdd(low, <<0>> \o rest)

\* a * (the limbs i and above of b)
RECURSIVE BNMulFrom(_, _, _)
BNMulFrom(a, b, i) ==
    IF i > Len(b) THEN <<>>
    ELSE BNMulUp(BNMulSmall(a, b[i]), BNMulFrom(a, b, i + 1))

BNMul(a, b) == IF a = <<>> \/ b = <<>> THEN <<>> ELSE BNMulFrom(a, b, 1)

Zeros(n) == [i \in 1..n |-> 0]

\* a * 2^k
BNShl(a, k) ==
    IF a = <<>> THEN <<>>
    ELSE Zeros(k \div LimbBits) \o BNMulSmall(a, 2^(k % LimbBits))

\* floor(a / 2^k)
BNShr(a, k) ==
    LET q == k \div LimbBits
        r == k % LimbBits
        lo == 2^r
        hi == 2^(LimbBits - r)
    IN  IF q >= Len(a) THEN <<>>
        ELSE BNNorm([i \in 1..(Len(a) - q) |->
                       (a[i + q] \div lo) + (Limb(a, i + q + 1) % lo) * hi])

\* bit i (weight 2^i) of a
BNBit(a, i) == (Limb(a, (i \div LimbBits) + 1) \div 2^(i % LimbBits)) % 2

BNBitLen(a) ==
    IF a = <<>> THEN 0 ELSE (Len(a) - 1) * LimbBits + NatBitLen(a[Len(a)])

\* a mod 2^k = 0
BNLowZero(a, k) ==
    LET q == k \div LimbBits
        r == k % LimbBits
    IN  /\ \A i \in 1..q : Limb(a, i) = 0
        /\ Limb(a, q + 1) % 2^r = 0

RECURSIVE NatTrailingZeros(_)
NatTrailingZeros(n) == IF n % 2 = 1 THEN 0 ELSE 1 + NatTrailingZeros(n \div 2)

RECURSIVE BNTrailingZerosFrom(_, _)
BNTrailingZerosFrom(a, i) ==
    IF a[i] = 0 THEN LimbBits + BNTrailingZerosFrom(a, i + 1)
    ELSE NatTrailingZeros(a[i])

\* the number of trailing zero bits of a > 0
BNTrailingZeros(a) == BNTrailingZerosFrom(a, 1)

\* the quotient limb: the largest c <= guess with d * c <= r
RECURSIVE BNQuotLimb(_, _, _)
BNQuotLimb(r, d, guess) ==
    LET p == BNMulSmall(d, guess)
    IN  IF BNCmp(p, r) > 0 THEN BNQuotLimb(r, d, guess - 1)
        ELSE [c |-> guess, r |-> BNSub(r, p)]

\* the first guess of a quotient limb, from the two leading limbs of the
\* remainder r and the leading limb of d: never too small, and at most 2
\* too large when d's leading limb has its top bit set
BNGuess(r, d) ==
    LET g == (Limb(r, Len(d) + 1) * LimbBase + Limb(r, Len(d))) \div d[Len(d)]
    IN  IF g < LimbBase THEN g ELSE LimbBase - 1

\* the quotient limb c put below the quotient limbs q found before it
BNDivPut(c, q) == IF c = 0 /\ q = <<>> THEN <<>> ELSE <<c>> \o q

RECURSIVE BNDivStep(_, _, _, _, _)
RECURSIVE BNDivLimb(_, _, _, _, _)
RECURSIVE BNDivNext(_, _, _, _, _)

BNDivNext(n, d, j, q, ql) == BNDivStep(n, d, j - 1, BNDivPut(ql.c, q), ql.r)

\* one step of the long division: r is the remainder so far with limb j of
\* the dividend brought down, q the quotient limbs so far
BNDivLimb(n, d, j, q, r) ==
    IF BNCmp(r, d) < 0 THEN BNDivStep(n, d, j - 1, BNDivPut(0, q), r)
    ELSE BNDivNext(n, d, j, q, BNQuotLimb(r, d, BNGuess(r, d)))

\* schoolbook long division by d, for d with the top bit of its leading
\* limb set: limbs j and below of n remain to be brought down
BNDivStep(n, d, j, q, r) ==
    IF j = 0 THEN [q |-> q, r |-> r]
    ELSE BNDivLimb(n, d, j, q, BNNorm(<<n[j]>> \o r))

\* the Len(d) - 1 leading limbs of n are below d, and each limb under them
\* gives one limb of the quotient
BNDivFrom(n, d, j) ==
    IF j <= 0 THEN [q |-> <<>>, r |-> n]
    ELSE BNDivStep(n, d, j, <<>>, BNNorm(SubSeq(n, j + 1, Len(n))))

\* [q |-> floor(n / d), r |-> (n mod d) * 2^sh] for d > 0, where sh is the
\* shift that sets the top bit of d's leading limb
BNDivShifted(n, d) == BNDivFrom(n, d, Len(n) - Len(d) + 1)

BNDivMod(n, d) ==
    LET sh == (LimbBits - (BNBitLen(d) % LimbBits)) % LimbBits
    IN  BNDivShifted(BNShl(n, sh), BNShl(d, sh))

Min(i, j) == IF i < j THEN i ELSE j

----------------------------------------------------------------------------
(* A Number: [s, m, e] is s * m * 2^e with s in {-1, 0, 1}; m is odd (so   *)
(* equal values are equal records) and below 2^53; zero is Zero.  NaN has  *)
(* s = 2.                                                                  *)

SignificandBits == 53

Zero == [s |-> 0, m |-> <<>>, e |-> 0]

NaN == [s |-> 2, m |-> <<>>, e |-> 0]

\* s * M * 2^E with the tz trailing zero bits of M moved to the exponent
FNormBy(s, M, E, tz) == [s |-> s, m |-> BNShr(M, tz), e |-> E + tz]

\* the Number that is exactly s * M * 2^E, for M of at most 53 bits
FNorm(s, M, E) ==
    IF M = <<>> \/ s = 0 THEN Zero ELSE FNormBy(s, M, E, BNTrailingZeros(M))

\* M / 2^k rounds up: the bit below the cut is set and either a lower one
\* is, or the bit above is (a tie, which goes to the even significand)
RoundsUp(M, k) ==
    BNBit(M, k - 1) = 1 /\ (BNBit(M, k) = 1 \/ ~BNLowZero(M, k - 1))

\* M with its k low bits rounded away
FRoundBy(s, M, E, k) ==
    IF k <= 0 THEN FNorm(s, M, E)
    ELSE FNorm(s, BNAddFrom(BNShr(M, k), <<>>, 1, IF RoundsUp(M, k) THEN 1 ELSE 0),
               E + k)

\* the Number nearest to s * M * 2^E, ties to the even significand
FRound(s, M, E) == FRoundBy(s, M, E, BNBitLen(M) - SignificandBits)

FromInt(n) ==
    IF n = 0 THEN Zero
    ELSE FNorm(IF n < 0 THEN -1 ELSE 1, BNFromNat(IF n < 0 THEN -n ELSE n), 0)

FNeg(a) == [a EXCEPT !.s = IF a.s = 2 THEN 2 ELSE -a.s]

\* -1, 0, 1 as Ma * 2^e0 and Mb * 2^e0 compare
FCmpAligned(a, b, e0) == BNCmp(BNShl(a.m, a.e - e0), BNShl(b.m, b.e - e0))

\* -1, 0, 1 as |a| < |b|, |a| = |b|, |a| > |b|, by the position of the
\* leading bit and then by the significands
FCmpLead(a, b, la, lb) ==
    IF la < lb THEN -1 ELSE IF la > lb THEN 1 ELSE FCmpAligned(a, b, Min(a.e, b.e))

FCmpAbs(a, b) ==
    IF a.s = 0 THEN (IF b.s = 0 THEN 0 ELSE -1)
    ELSE IF b.s = 0 THEN 1
    ELSE FCmpLead(a, b, BNBitLen(a.m) + a.e, BNBitLen(b.m) + b.e)

\* -1, 0, 1 as a < b, a = b, a > b, for a and b not NaN
FCmp(a, b) ==
    IF a.s # b.s THEN (IF a.s < b.s THEN -1 ELSE 1)
    ELSE a.s * FCmpAbs(a, b)

\* a < b, a > b, a <= b: false when either is NaN
FLt(a, b) == a.s # 2 /\ b.s # 2 /\ FCmp(a, b) < 0
FGt(a, b) == a.s # 2 /\ b.s # 2 /\ FCmp(a, b) > 0
FLe(a, b) == a.s # 2 /\ b.s # 2 /\ FCmp(a, b) <= 0

\* Math.max and Math.min on Numbers: NaN when either is
MathMax(a, b) == IF a.s = 2 \/ b.s = 2 THEN NaN ELSE IF FLt(a, b) THEN b ELSE a
MathMin(a, b) == IF a.s = 2 \/ b.s = 2 THEN NaN ELSE IF FLt(b, a) THEN b ELSE a

\* sa * Ma * 2^e0 + sb * Mb * 2^e0, where c compares Ma with Mb
FAddSigned(sa, Ma, sb, Mb, e0, c) ==
    FRound(IF c >= 0 THEN sa ELSE sb,
           IF sa = sb THEN BNAdd(Ma, Mb)
           ELSE IF c >= 0 THEN BNSub(Ma, Mb) ELSE BNSub(Mb, Ma),
           e0)

FAddAligned(sa, Ma, sb, Mb, e0) ==
    FAddSigned(sa, Ma, sb, Mb, e0, BNCmp(Ma, Mb))

FAddAt(a, b, e0) ==
    FAddAligned(a.s, BNShl(a.m, a.e - e0), b.s, BNShl(b.m, b.e - e0), e0)

\* a + b
FAdd(a, b) ==
    IF a.s = 2 \/ b.s = 2 THEN NaN
    ELSE IF a.s = 0 THEN b
    ELSE IF b.s = 0 THEN a
    ELSE FAddAt(a, b, Min(a.e, b.e))

\* a - b
FSub(a, b) == FAdd(a, FNeg(b))

\* a * b
FMul(a, b) ==
    IF a.s = 2 \/ b.s = 2 THEN NaN
    ELSE IF a.s = 0 \/ b.s = 0 THEN Zero
    ELSE FRound(a.s * b.s, BNMul(a.m, b.m), a.e + b.e)

\* the quotient and a last bit that says whether anything remains, rounded
FDivRound(s, qr, E) ==
    FRound(s, BNAddFrom(qr.q, qr.q, 1, IF qr.r = <<>> THEN 0 ELSE 1), E)

\* a / b from the quotient of a.m * 2^k by b.m
FDivBy(a, b, k) ==
    FDivRound(a.s * b.s, BNDivMod(BNShl(a.m, k), b.m), a.e - b.e - k - 1)

\* a / b for b # 0: the shift k makes the quotient one of 55 bits or more
FDivBits(a, b, need) == FDivBy(a, b, IF need > 0 THEN need ELSE 0)

FDiv(a, b) ==
    IF a.s = 2 \/ b.s = 2 THEN NaN
    ELSE IF a.s = 0 THEN Zero
    ELSE IF b.m = <<1>> THEN [s |-> a.s * b.s, m |-> a.m, e |-> a.e - b.e]
    ELSE FDivBits(a, b, SignificandBits + 2 + BNBitLen(b.m) - BNBitLen(a.m))

\* a.m / 2^k rounded to the nearest integer, a tie going towards +Infinity:
\* floor(m / 2^k + 1/2) for a > 0 and -ceil(m / 2^k - 1/2) for a < 0, where
\* half is 2^(k - 1)
MathRoundAt(a, k, half) ==
    IF a.s > 0 THEN FNorm(1, BNShr(BNAdd(a.m, half), k), 0)
    ELSE IF BNCmp(a.m, half) <= 0 THEN Zero
    ELSE FNorm(-1, BNShr(BNAdd(a.m, BNSub(half, <<1>>)), k), 0)

\* Math.round: the nearest integer, a tie going towards +Infinity
MathRound(a) ==
    IF a.s = 2 \/ a.s = 0 \/ a.e >= 0 THEN a
    ELSE MathRoundAt(a, -a.e, BNShl(<<1>>, -a.e - 1))

\* the integer a Number with an integral value is
ToInt(a) == IF a.s = 0 THEN 0 ELSE a.s * BNToNat(BNShl(a.m, a.e))

\* the Number a decimal literal n/d denotes (d a power of ten): the nearest
\* Number to the rational, which is what the correctly rounded quotient of
\* the two integers is
Dec(n, d) == FDiv(FromInt(n), FromInt(d))

\* Number(x) || 0: NaN and 0 are falsy
NumberOr0(x) == IF x.s = 2 THEN Zero ELSE x

Hundred == FromInt(100)
One == FromInt(1)

----------------------------------------------------------------------------
(* The totals engine.  An item is [quantity, unitPrice, taxes], a tax      *)
(* assessment is [percent, taxDefinitionId]; the free-text notes, which    *)
(* the engine copies and never reads, are left out.                        *)

\* const r2 = (n: number) => Math.round(n * 100) / 100
r2(n) == FDiv(MathRound(FMul(n, Hundred)), Hundred)

\* items.map(it => (Number(it.quantity) || 0) * (Number(it.unitPrice) || 0))
LineGrosses(items) ==
    [i \in 1..Len(items) |->
        FMul(NumberOr0(items[i].quantity), NumberOr0(items[i].unitPrice))]

\* xs.reduce((a, b) => a + b, 0) over the first n elements
RECURSIVE SumFirst(_, _)
SumFirst(xs, n) == IF n = 0 THEN Zero ELSE FAdd(SumFirst(xs, n - 1), xs[n])

Sum(xs) == SumFirst(xs, Len(xs))

\* Math.min(Math.max(discountPercentage > 0
\*     ? subtotal * (discountPercentage / 100)
\*     : (Number(discountAmount) || 0), 0), subtotal)
FinalDiscountAmount(subtotal, discountPercentage, discountAmount) ==
    MathMin(MathMax(IF FGt(discountPercentage, Zero)
                    THEN FMul(subtotal, FDiv(discountPercentage, Hundred))
                    ELSE NumberOr0(discountAmount),
                    Zero),
            subtotal)

\* the line's share d, then the shares of the lines after it
RECURSIVE DistributeFrom(_, _, _, _, _)
DistributeNext(lineGrosses, subtotal, finalDiscountAmount, idx, distributed, d) ==
    <<d>> \o DistributeFrom(lineGrosses, subtotal, finalDiscountAmount,
                            idx + 1, FAdd(distributed, d))

\* the map callback of lineDiscounts from index idx on, for subtotal # 0:
\* the last line gets r2(finalDiscountAmount - distributed)
DistributeFrom(lineGrosses, subtotal, finalDiscountAmount, idx, distributed) ==
    IF idx > Len(lineGrosses) THEN <<>>
    ELSE IF idx = Len(lineGrosses)
    THEN <<r2(FSub(finalDiscountAmount, distributed))>>
    ELSE DistributeNext(lineGrosses, subtotal, finalDiscountAmount, idx, distributed,
             r2(FMul(finalDiscountAmount, FDiv(lineGrosses[idx], subtotal))))

\* lineDiscounts of calculateInvoiceTotals (computed when subtotal > 0)
LineDiscounts(lineGrosses, subtotal, finalDiscountAmount) ==
    DistributeFrom(lineGrosses, subtotal, finalDiscountAmount, 1, Zero)

\* Math.max(0, gross - (lineDiscount || 0))
AfterDiscount(gross, lineDiscount) ==
    MathMax(Zero, FSub(gross, NumberOr0(lineDiscount)))

\* rate > 0 ? afterDiscount / (1 + rate) : afterDiscount
Net(afterDiscount, rate) ==
    IF FGt(rate, Zero) THEN FDiv(afterDiscount, FAdd(One, rate)) ELSE afterDiscount

\* a line that adds the tax on top of a tax-inclusive price: not what the
\* code does, and what the independence of the total from the rate excludes
LineTaxOnTop(afterDiscount, rate, pricesIncludeTax) ==
    [tax   |-> IF pricesIncludeTax
               THEN r2(FSub(afterDiscount, Net(afterDiscount, rate)))
               ELSE r2(FMul(afterDiscount, rate)),
     total |-> IF pricesIncludeTax
               THEN r2(FAdd(afterDiscount,
                            r2(FSub(afterDiscount, Net(afterDiscount, rate)))))
               ELSE r2(FAdd(afterDiscount, r2(FMul(afterDiscount, rate))))]

\* a line whose tax is not rounded before it is added: not what the code
\* does, and what the rounding per line excludes
LineTaxUnrounded(afterDiscount, rate, pricesIncludeTax) ==
    IF pricesIncludeTax
    THEN [tax   |-> FSub(afterDiscount, Net(afterDiscount, rate)),
          total |-> afterDiscount]
    ELSE [tax   |-> FMul(afterDiscount, rate),
          total |-> FAdd(afterDiscount, FMul(afterDiscount, rate))]

\* what one line adds to sumTax and to sumTotal
LineTaxAndTotal(afterDiscount, rate, pricesIncludeTax) ==
    IF pricesIncludeTax
    THEN [tax   |-> r2(FSub(afterDiscount, Net(afterDiscount, rate))),
          total |-> r2(afterDiscount)]
    ELSE [tax   |-> r2(FMul(afterDiscount, rate)),
          total |-> r2(FAdd(afterDiscount, r2(FMul(afterDiscount, rate))))]

\* Math.max(0, Number(taxRate) || 0) / 100
Rate(taxRate) == FDiv(MathMax(Zero, NumberOr0(taxRate)), Hundred)

\* the loop of the "line" branch, line by line
UniformLines(lineGrosses, lineDiscounts, rate, pricesIncludeTax) ==
    [i \in 1..Len(lineGrosses) |->
        LineTaxAndTotal(AfterDiscount(lineGrosses[i], lineDiscounts[i]),
                        rate, pricesIncludeTax)]

\* taxAmount = r2(sumTax) and total = r2(sumTotal)
SumTax(lines) == r2(Sum([i \in 1..Len(lines) |-> lines[i].tax]))
SumTotal(lines) == r2(Sum([i \in 1..Len(lines) |-> lines[i].total]))

\* taxAmount of the else branch, on afterDiscount = subtotal - finalDiscountAmount
AggregateTax(afterDiscount, rate, pricesIncludeTax) ==
    IF pricesIncludeTax THEN r2(FSub(afterDiscount, Net(afterDiscount, rate)))
    ELSE r2(FMul(afterDiscount, rate))

\* a total to which the tax is added before it is rounded: not what the
\* code does
AggregateTotalOfUnroundedTax(afterDiscount, rate, pricesIncludeTax) ==
    IF pricesIncludeTax THEN r2(afterDiscount)
    ELSE r2(FAdd(afterDiscount, FMul(afterDiscount, rate)))

\* total of the else branch
AggregateTotal(afterDiscount, rate, pricesIncludeTax) ==
    IF pricesIncludeTax THEN r2(afterDiscount)
    ELSE r2(FAdd(afterDiscount, r2(FMul(afterDiscount, rate))))

\* the return statement of calculateInvoiceTotals
Totals(subtotal, finalDiscountAmount, taxAmount, total) ==
    [subtotal       |-> r2(subtotal),
     discountAmount |-> r2(finalDiscountAmount),
     taxAmount      |-> r2(taxAmount),
     total          |-> r2(total)]

\* lineDiscounts of calculatePerLineTotals: 0 for every line when
\* subtotal === 0
PerLineDiscounts(lineGrosses, subtotal, finalDiscountAmount) ==
    IF subtotal = Zero THEN [i \in 1..Len(lineGrosses) |-> Zero]
    ELSE DistributeFrom(lineGrosses, subtotal, finalDiscountAmount, 1, Zero)

\* allocations that depend on the rounding mode, unrounded shares of the
\* discount under "total": not what the code does, and what the equality of
\* the results under the two modes excludes
PerLineDiscountsByMode(roundingMode, lineGrosses, subtotal, finalDiscountAmount) ==
    IF roundingMode = "total" /\ subtotal # Zero
    THEN [i \in 1..Len(lineGrosses) |->
            FMul(finalDiscountAmount, FDiv(lineGrosses[i], subtotal))]
    ELSE PerLineDiscounts(lineGrosses, subtotal, finalDiscountAmount)

\* lineDiscounts as calculatePerLineTotals computes them from its arguments:
\* the parameter _roundingMode is not read
PerLineDiscountsIn(roundingMode, lineGrosses, subtotal, finalDiscountAmount) ==
    PerLineDiscounts(lineGrosses, subtotal, finalDiscountAmount)

\* taxes.reduce((s, t) => s + (Number(t.percent) || 0), 0) over the first n
RECURSIVE PercentSum(_, _)
PercentSum(taxes, n) ==
    IF n = 0 THEN Zero
    ELSE FAdd(PercentSum(taxes, n - 1), NumberOr0(taxes[n].percent))

RateSum(taxes) == FDiv(PercentSum(taxes, Len(taxes)), Hundred)

\* net = afterDiscount; if (pricesIncludeTax && rateSum > 0) net = ...
ItemNet(afterDiscount, rateSum, pricesIncludeTax) ==
    IF pricesIncludeTax THEN Net(afterDiscount, rateSum) ELSE afterDiscount

\* the entry pushed to itemTaxes for p = (Number(t.percent) || 0) / 100
ItemTaxAt(p, net, taxDefinitionId) ==
    [percent |-> r2(FMul(p, Hundred)), amount |-> r2(FMul(net, p)),
     taxDefinitionId |-> taxDefinitionId]

\* assessments of which each is taken on the net amount plus the amount of
\* the assessment before it: not what the code does, and what independent
\* assessments exclude
ItemTaxesCompounded(taxes, net) ==
    [k \in 1..Len(taxes) |->
        ItemTaxAt(FDiv(NumberOr0(taxes[k].percent), Hundred),
                  IF k = 1 THEN net
                  ELSE FAdd(net, r2(FMul(net, FDiv(NumberOr0(taxes[k - 1].percent),
                                                   Hundred)))),
                  taxes[k].taxDefinitionId)]

ItemTaxes(taxes, net) ==
    [k \in 1..Len(taxes) |->
        ItemTaxAt(FDiv(NumberOr0(taxes[k].percent), Hundred), net,
                  taxes[k].taxDefinitionId)]

\* what the loop body computes for one item, before it updates summaryMap,
\* total and taxAmount
ItemTaxed(afterDiscount, net, itemTaxes) ==
    [afterDiscount |-> afterDiscount, net |-> net, taxes |-> itemTaxes,
     itemTaxSum |-> r2(Sum([k \in 1..Len(itemTaxes) |-> itemTaxes[k].amount]))]

ItemAfter(taxes, afterDiscount, net) ==
    ItemTaxed(afterDiscount, net, ItemTaxes(taxes, net))

ItemCalc(item, gross, lineDiscount, pricesIncludeTax) ==
    ItemAfter(item.taxes, AfterDiscount(NumberOr0(gross), lineDiscount),
              ItemNet(AfterDiscount(NumberOr0(gross), lineDiscount),
                      RateSum(item.taxes), pricesIncludeTax))

\* a summary row per percentage that keeps the last amount instead of the
\* sum: not what the code does, and what the sum of the summary excludes
SummaryAddOverwrite(summaryMap, percent, net, amt) ==
    IF \E j \in 1..Len(summaryMap) : summaryMap[j].percent = percent
    THEN [j \in 1..Len(summaryMap) |->
            IF summaryMap[j].percent = percent
            THEN [percent |-> percent,
                  taxable |-> r2(FAdd(summaryMap[j].taxable, net)),
                  amount  |-> r2(FAdd(Zero, amt))]
            ELSE summaryMap[j]]
    ELSE Append(summaryMap, [percent |-> percent,
                             taxable |-> r2(FAdd(Zero, net)),
                             amount  |-> r2(FAdd(Zero, amt))])

\* a summary row per assessment: not what the code does, and what the
\* grouping by percentage excludes
SummaryAddRow(summaryMap, percent, net, amt) ==
    Append(summaryMap, [percent |-> percent,
                        taxable |-> r2(FAdd(Zero, net)),
                        amount  |-> r2(FAdd(Zero, amt))])

\* a summary row that keeps the taxable base of its first assessment: not
\* what the code does, and what the sum of the net amounts excludes
SummaryAddFirstNet(summaryMap, percent, net, amt) ==
    IF \E j \in 1..Len(summaryMap) : summaryMap[j].percent = percent
    THEN [j \in 1..Len(summaryMap) |->
            IF summaryMap[j].percent = percent
            THEN [percent |-> percent,
                  taxable |-> summaryMap[j].taxable,
                  amount  |-> r2(FAdd(summaryMap[j].amount, amt))]
            ELSE summaryMap[j]]
    ELSE Append(summaryMap, [percent |-> percent,
                             taxable |-> r2(FAdd(Zero, net)),
                             amount  |-> r2(FAdd(Zero, amt))])

\* summaryMap.get(percent) || { taxable: 0, amount: 0 }, then the two
\* additions, then summaryMap.set: a Map keeps its keys in insertion order
SummaryAdd(summaryMap, percent, net, amt) ==
    IF \E j \in 1..Len(summaryMap) : summaryMap[j].percent = percent
    THEN [j \in 1..Len(summaryMap) |->
            IF summaryMap[j].percent = percent
            THEN [percent |-> percent,
                  taxable |-> r2(FAdd(summaryMap[j].taxable, net)),
                  amount  |-> r2(FAdd(summaryMap[j].amount, amt))]
            ELSE summaryMap[j]]
    ELSE Append(summaryMap, [percent |-> percent,
                             taxable |-> r2(FAdd(Zero, net)),
                             amount  |-> r2(FAdd(Zero, amt))])

\* summaryMap after the first k assessments of an item, on top of m
RECURSIVE SummaryItem(_, _, _)
SummaryItem(m, calc, k) ==
    IF k = 0 THEN m
    ELSE SummaryAdd(SummaryItem(m, calc, k - 1),
                    calc.taxes[k].percent, calc.net, calc.taxes[k].amount)

\* summaryMap after the first i items
RECURSIVE SummaryMap(_, _)
SummaryMap(itemCalc, i) ==
    IF i = 0 THEN <<>>
    ELSE SummaryItem(SummaryMap(itemCalc, i - 1), itemCalc[i],
                     Len(itemCalc[i].taxes))

\* total and taxAmount with item c added to acc
AccumulateItem(acc, c, pricesIncludeTax) ==
    [total |->
        IF pricesIncludeTax THEN r2(FAdd(acc.total, c.afterDiscount))
        ELSE r2(FAdd(FAdd(acc.total, c.net), c.itemTaxSum)),
     taxAmount |-> r2(FAdd(acc.taxAmount, c.itemTaxSum))]

\* total and taxAmount after the first i items
RECURSIVE Accumulate(_, _, _)
Accumulate(itemCalc, i, pricesIncludeTax) ==
    IF i = 0 THEN [total |-> Zero, taxAmount |-> Zero]
    ELSE AccumulateItem(Accumulate(itemCalc, i - 1, pricesIncludeTax),
                        itemCalc[i], pricesIncludeTax)

\* rows.sort((a, b) => a.percent - b.percent): the sort is stable
RECURSIVE SortByPercent(_)
SortByPercent(rows) ==
    IF rows = <<>> THEN <<>>
    ELSE LET least == CHOOSE j \in 1..Len(rows) :
                          /\ \A k \in 1..Len(rows) : FLe(rows[j].percent, rows[k].percent)
                          /\ \A k \in 1..(j - 1) : rows[k].percent # rows[j].percent
         IN  <<rows[least]>> \o
             SortByPercent(SubSeq(rows, 1, least - 1) \o
                           SubSeq(rows, least + 1, Len(rows)))

\* Array.from(summaryMap.entries()).map(...).sort(...)
Summary(summaryMap) ==
    SortByPercent([j \in 1..Len(summaryMap) |->
        [percent |-> summaryMap[j].percent,
         taxable |-> r2(summaryMap[j].taxable),
         amount  |-> r2(summaryMap[j].amount)]])

\* perItem as returned
PerItem(itemCalc) ==
    [i \in 1..Len(itemCalc) |->
        [taxable |-> r2(itemCalc[i].net), taxes |-> itemCalc[i].taxes]]

\* the return statement of calculatePerLineTotals
PerLineTotals(subtotal, finalDiscountAmount, acc, itemCalc) ==
    [subtotal       |-> r2(subtotal),
     discountAmount |-> r2(finalDiscountAmount),
     taxAmount      |-> r2(acc.taxAmount),
     total          |-> r2(acc.total),
     perItem        |-> PerItem(itemCalc),
     summary        |-> Summary(SummaryMap(itemCalc, Len(itemCalc)))]

----------------------------------------------------------------------------
(* The requests.  createInvoice and updateInvoice call                     *)
(* calculatePerLineTotals when some item carries tax assessments and       *)
(* calculateInvoiceTotals otherwise.                                       *)

MaxItems == 2

Item(quantity, unitPrice, taxes) ==
    [quantity |-> quantity, unitPrice |-> unitPrice, taxes |-> taxes]

Tax(percent, taxDefinitionId) ==
    [percent |-> percent, taxDefinitionId |-> taxDefinitionId]

\* quantity and unit price of the lines: a price in whole units, a
\* fractional one, a credit of an eighth, another price in whole units
ItemKinds ==
    { <<FromInt(1), FromInt(121)>>, <<FromInt(2), Dec(5, 10)>>,
      <<FromInt(1), Dec(-125, 1000)>>, <<FromInt(1), FromInt(22)>> }

\* the assessments of a line: one, or two of which the first shares its
\* rounded percentage with the single one under another definition
SingleTax == << Tax(FromInt(5), "vat-a") >>
DoubleTax == << Tax(Dec(5004, 1000), "vat-b"), Tax(FromInt(10), "city") >>

\* discountPercentage and discountAmount: none, a percentage, both, an
\* amount, an amount above any subtotal, a negative amount
Discounts ==
    { <<Zero, Zero>>, <<Dec(75, 10), Zero>>, <<Dec(75, 10), FromInt(1)>>,
      <<Zero, Dec(15, 1000)>>, <<Zero, FromInt(1000)>>, <<Zero, FromInt(-1)>> }

TaxRates == { Zero, FromInt(10), FromInt(21) }

RoundingModes == { "line", "total" }

RECURSIVE SeqsOfLen(_, _)
SeqsOfLen(S, n) ==
    IF n = 0 THEN { <<>> }
    ELSE { Append(q, x) : q \in SeqsOfLen(S, n - 1), x \in S }

\* the assessments the line at position i may carry in a per-line request
TaxListsAt(i) == IF i = 1 THEN { SingleTax, DoubleTax } ELSE { <<>>, DoubleTax }

\* item lists without assessments
UniformItemLists ==
    UNION { SeqsOfLen({ Item(k[1], k[2], <<>>) : k \in ItemKinds }, n) :
            n \in 1..MaxItems }

\* item lists of which the first line, at least, carries assessments
RECURSIVE TaxedItemLists(_)
TaxedItemLists(n) ==
    IF n = 0 THEN { <<>> }
    ELSE { Append(q, Item(k[1], k[2], t)) :
             q \in TaxedItemLists(n - 1), k \in ItemKinds, t \in TaxListsAt(n) }

PerLineItemLists == UNION { TaxedItemLists(n) : n \in 1..MaxItems }

\* Array.isArray(data.items) && data.items.some(i => i.taxes.length > 0)
HasPerLineTaxes(items) ==
    { i \in 1..Len(items) : Len(items[i].taxes) > 0 } # {}

Request(items, discount, taxRate, pricesIncludeTax, roundingMode) ==
    [items |-> items, discountPercentage |-> discount[1],
     discountAmount |-> discount[2], taxRate |-> taxRate,
     pricesIncludeTax |-> pricesIncludeTax, roundingMode |-> roundingMode]

\* the requests whose items carry no assessments
UniformRequests ==
    { Request(its, d, tr, pit, rm) :
        its \in UniformItemLists, d \in Discounts, tr \in TaxRates,
        pit \in BOOLEAN, rm \in RoundingModes }

\* the requests with assessments: the invoice-level tax rate is not passed
\* to calculatePerLineTotals
PerLineRequests ==
    { Request(its, d, Zero, pit, rm) :
        its \in PerLineItemLists, d \in Discounts, pit \in BOOLEAN, rm \in RoundingModes }

\* the worked examples: lines of 60 and 40 with a discount of 10, two
\* units at 50 with a rate of 10 %, one line of 100 with assessments of
\* 5 % and 10 %, the same with the assessments in the other order, and a
\* line of quantity 0, whose subtotal is 0
ExampleRequests ==
    { Request(<< Item(FromInt(1), FromInt(60), <<>>), Item(FromInt(1), FromInt(40), <<>>) >>,
              <<Zero, FromInt(10)>>, Zero, FALSE, "line"),
      Request(<< Item(FromInt(2), FromInt(50), <<>>) >>,
              <<Zero, Zero>>, FromInt(10), FALSE, "line"),
      Request(<< Item(FromInt(1), FromInt(100),
                      << Tax(FromInt(5), "vat-a"), Tax(FromInt(10), "city") >>) >>,
              <<Zero, Zero>>, Zero, FALSE, "line"),
      Request(<< Item(FromInt(1), FromInt(100),
                      << Tax(FromInt(10), "city"), Tax(FromInt(5), "vat-a") >>) >>,
              <<Zero, Zero>>, Zero, FALSE, "line") }
    \cup { Request(<< Item(Zero, FromInt(22), <<>>) >>, <<Zero, FromInt(1)>>,
                   FromInt(10), pit, rm) : pit \in BOOLEAN, rm \in RoundingModes }

Requests == UniformRequests \cup PerLineRequests \cup ExampleRequests

\* calculateInvoiceTotals(args.items, ...) as a function of its arguments:
\* what the call returns
InvoiceTotalsOfLines(subtotal, finalDiscountAmount, lines) ==
    Totals(subtotal, finalDiscountAmount, SumTax(lines), SumTotal(lines))

InvoiceTotalsOfDiscount(args, lineGrosses, subtotal, finalDiscountAmount) ==
    IF args.roundingMode = "line" /\ FGt(subtotal, Zero)
    THEN InvoiceTotalsOfLines(subtotal, finalDiscountAmount,
             UniformLines(lineGrosses,
                          LineDiscounts(lineGrosses, subtotal, finalDiscountAmount),
                          Rate(args.taxRate), args.pricesIncludeTax))
    ELSE Totals(subtotal, finalDiscountAmount,
                AggregateTax(FSub(subtotal, finalDiscountAmount),
                             Rate(args.taxRate), args.pricesIncludeTax),
                AggregateTotal(FSub(subtotal, finalDiscountAmount),
                               Rate(args.taxRate), args.pricesIncludeTax))

InvoiceTotalsOfSubtotal(args, lineGrosses, subtotal) ==
    InvoiceTotalsOfDiscount(args, lineGrosses, subtotal,
        FinalDiscountAmount(subtotal, args.discountPercentage, args.discountAmount))

CalculateInvoiceTotalsOf(args) ==
    InvoiceTotalsOfSubtotal(args, LineGrosses(args.items), Sum(LineGrosses(args.items)))

\* calculatePerLineTotals(args.items, ...) as a function of its arguments
PerLineTotalsOfItems(args, subtotal, finalDiscountAmount, itemCalc) ==
    PerLineTotals(subtotal, finalDiscountAmount,
                  Accumulate(itemCalc, Len(itemCalc), args.pricesIncludeTax), itemCalc)

PerLineTotalsOfShares(args, lineGrosses, subtotal, finalDiscountAmount, lineDiscounts) ==
    PerLineTotalsOfItems(args, subtotal, finalDiscountAmount,
        [i \in 1..Len(args.items) |->
            ItemCalc(args.items[i], lineGrosses[i], lineDiscounts[i],
                     args.pricesIncludeTax)])

PerLineTotalsOfDiscount(args, lineGrosses, subtotal, finalDiscountAmount) ==
    PerLineTotalsOfShares(args, lineGrosses, subtotal, finalDiscountAmount,
        PerLineDiscountsIn(args.roundingMode, lineGrosses, subtotal, finalDiscountAmount))

PerLineTotalsOfSubtotal(args, lineGrosses, subtotal) ==
    PerLineTotalsOfDiscount(args, lineGrosses, subtotal,
        FinalDiscountAmount(subtotal, args.discountPercentage, args.discountAmount))

CalculatePerLineTotalsOf(args) ==
    PerLineTotalsOfSubtotal(args, LineGrosses(args.items), Sum(LineGrosses(args.items)))

NoCall == [fn |-> "none"]

\* the settings as the handlers read them from a table without rows:
\* Number(settings.defaultTaxRate || 0) || 0, "false" for
\* defaultPricesIncludeTax, "line" for defaultRoundingMode, no
\* invoiceNumberPattern
NoSettings ==
    [defaultTaxRate |-> Zero, defaultPricesIncludeTax |-> FALSE,
     defaultRoundingMode |-> "line", invoiceNumberPattern |-> ""]

\* the tables of the database, all without rows
EmptyDb ==
    [product_categories |-> {}, product_units |-> {}, products |-> {},
     customers |-> {}, invoices |-> {}, invoice_items |-> {},
     invoice_item_taxes |-> {}, invoice_taxes |-> {}, settings |-> NoSettings]

VARIABLES
    req,                  \* the arguments of the call
    fn,                   \* the function that ran: "none" before the call
    lineGrosses,          \* the locals of the function, as it returns
    subtotal,
    finalDiscountAmount,
    lineDiscounts,
    lines,                \* what the loop over the lines computed per line
    ret,                  \* the value returned
    prev,                 \* what is kept of the call before, if any
    db                    \* the rows stored in the database

vars == <<req, fn, lineGrosses, subtotal, finalDiscountAmount, lineDiscounts,
          lines, ret, prev, db>>

\* no call made yet
Idle ==
    /\ fn = "none"
    /\ lineGrosses = <<>>
    /\ subtotal = Zero
    /\ finalDiscountAmount = Zero
    /\ lineDiscounts = <<>>
    /\ lines = <<>>
    /\ ret = NoCall

Init ==
    /\ req \in Requests
    /\ Idle
    /\ prev = NoCall
    /\ db = EmptyDb

\* the locals and the return value of calculateInvoiceTotals(args.items, ...)
InvoiceTotalsOf(args) ==
    /\ lineGrosses' = LineGrosses(args.items)
    /\ subtotal' = Sum(lineGrosses')
    /\ finalDiscountAmount' =
           FinalDiscountAmount(subtotal', args.discountPercentage, args.discountAmount)
    /\ IF args.roundingMode = "line" /\ FGt(subtotal', Zero)
       THEN /\ lineDiscounts' =
                  LineDiscounts(lineGrosses', subtotal', finalDiscountAmount')
            /\ lines' = UniformLines(lineGrosses', lineDiscounts',
                                     Rate(args.taxRate), args.pricesIncludeTax)
            /\ ret' = Totals(subtotal', finalDiscountAmount',
                             SumTax(lines'), SumTotal(lines'))
       ELSE /\ lineDiscounts' = <<>>
            /\ lines' = <<>>
            /\ ret' = Totals(subtotal', finalDiscountAmount',
                             AggregateTax(FSub(subtotal', finalDiscountAmount'),
                                          Rate(args.taxRate), args.pricesIncludeTax),
                             AggregateTotal(FSub(subtotal', finalDiscountAmount'),
                                            Rate(args.taxRate), args.pricesIncludeTax))

\* the call of calculateInvoiceTotals with the arguments of req
InvoiceTotalsOfCall == InvoiceTotalsOf(req)

\* a calculateInvoiceTotals that writes each line's gross amount back into
\* the unit price of its item: not what the code does, and what purity
\* excludes
CalculateInvoiceTotalsInPlace ==
    /\ fn = "none"
    /\ ~HasPerLineTaxes(req.items)
    /\ fn' = "calculateInvoiceTotals"
    /\ InvoiceTotalsOfCall
    /\ req' = [req EXCEPT !.items =
                  [i \in 1..Len(req.items) |->
                     [req.items[i] EXCEPT !.unitPrice = lineGrosses'[i]]]]
    /\ UNCHANGED <<prev, db>>

\* calculateInvoiceTotals(req.items, ...), whole: the arguments are read,
\* items.map builds new arrays
CalculateInvoiceTotals ==
    /\ fn = "none"
    /\ ~HasPerLineTaxes(req.items)
    /\ fn' = "calculateInvoiceTotals"
    /\ InvoiceTotalsOfCall
    /\ UNCHANGED <<req, prev, db>>

\* the locals and the return value of calculatePerLineTotals(args.items, ...)
PerLineTotalsOf(args) ==
    /\ lineGrosses' = LineGrosses(args.items)
    /\ subtotal' = Sum(lineGrosses')
    /\ finalDiscountAmount' =
           FinalDiscountAmount(subtotal', args.discountPercentage, args.discountAmount)
    /\ lineDiscounts' = PerLineDiscountsIn(args.roundingMode, lineGrosses',
                                           subtotal', finalDiscountAmount')
    /\ lines' = [i \in 1..Len(args.items) |->
                    ItemCalc(args.items[i], lineGrosses'[i], lineDiscounts'[i],
                             args.pricesIncludeTax)]
    /\ ret' = PerLineTotals(subtotal', finalDiscountAmount',
                            Accumulate(lines', Len(lines'), args.pricesIncludeTax),
                            lines')

\* the call of calculatePerLineTotals with the arguments of req
PerLineTotalsOfCall == PerLineTotalsOf(req)

\* calculatePerLineTotals(req.items, ...), whole
CalculatePerLineTotals ==
    /\ fn = "none"
    /\ HasPerLineTaxes(req.items)
    /\ fn' = "calculatePerLineTotals"
    /\ PerLineTotalsOfCall
    /\ UNCHANGED <<req, prev, db>>

Next == CalculateInvoiceTotals \/ CalculatePerLineTotals

Spec == Init /\ [][Next]_vars

----------------------------------------------------------------------------
(* The same invoice, tax-inclusive, computed a second time after its tax   *)
(* rate (uniform) or the assessments of one of its lines (per-line) were   *)
(* changed, as updateInvoice does: prev keeps what the first call returned. *)

InitRetax ==
    /\ req \in { r \in Requests : r.pricesIncludeTax }
    /\ Idle
    /\ prev = NoCall
    /\ db = EmptyDb

\* another tax rate, nothing else changed
Retax ==
    /\ fn = "calculateInvoiceTotals"
    /\ prev = NoCall
    /\ \E tr \in TaxRates \ { req.taxRate } : req' = [req EXCEPT !.taxRate = tr]
    /\ prev' = ret
    /\ fn' = "none"
    /\ lineGrosses' = <<>>
    /\ subtotal' = Zero
    /\ finalDiscountAmount' = Zero
    /\ lineDiscounts' = <<>>
    /\ lines' = <<>>
    /\ ret' = NoCall
    /\ UNCHANGED db

\* other assessments on one line, nothing else changed
Reassess ==
    /\ fn = "calculatePerLineTotals"
    /\ prev = NoCall
    /\ \E i \in 1..Len(req.items) :
         \E t \in TaxListsAt(i) \ { req.items[i].taxes } :
            req' = [req EXCEPT !.items[i].taxes = t]
    /\ prev' = ret
    /\ fn' = "none"
    /\ lineGrosses' = <<>>
    /\ subtotal' = Zero
    /\ finalDiscountAmount' = Zero
    /\ lineDiscounts' = <<>>
    /\ lines' = <<>>
    /\ ret' = NoCall
    /\ UNCHANGED db

NextRetax ==
    CalculateInvoiceTotals \/ CalculatePerLineTotals \/ Retax \/ Reassess

SpecRetax == InitRetax /\ [][NextRetax]_vars

----------------------------------------------------------------------------
(* The rounding helper on its own: r2 applied to the amounts of at most    *)
(* RoundMax thousandths, either sign.                                      *)

RoundMax == 130

InitRound ==
    /\ req \in { [n |-> Dec(k, 1000)] : k \in -RoundMax..RoundMax }
    /\ Idle
    /\ prev = NoCall
    /\ db = EmptyDb

\* r2(req.n)
RoundToCents ==
    /\ fn = "none"
    /\ fn' = "r2"
    /\ ret' = r2(req.n)
    /\ UNCHANGED <<req, lineGrosses, subtotal, finalDiscountAmount,
                   lineDiscounts, lines, prev, db>>

NextRound == RoundToCents

SpecRound == InitRound /\ [][NextRound]_vars

----------------------------------------------------------------------------
(* Properties.  Amounts are compared in cents: the integer that            *)
(* Math.round(x * 100) is.                                                 *)

Cents(x) == ToInt(MathRound(FMul(x, Hundred)))

RECURSIVE CentsOfFirst(_, _)
CentsOfFirst(xs, n) ==
    IF n = 0 THEN 0 ELSE CentsOfFirst(xs, n - 1) + Cents(xs[n])

\* the cents of a sequence of Numbers, added as integers
CentsOf(xs) == CentsOfFirst(xs, Len(xs))

\* the cents of the amounts of an item's assessments at a percentage
MatchingOfItem(taxes, percent) ==
    CentsOf([k \in 1..Len(taxes) |->
                IF taxes[k].percent = percent THEN taxes[k].amount ELSE Zero])

RECURSIVE MatchingOfFirst(_, _, _)
MatchingOfFirst(perItem, percent, n) ==
    IF n = 0 THEN 0
    ELSE MatchingOfFirst(perItem, percent, n - 1)
         + MatchingOfItem(perItem[n].taxes, percent)

\* the cents of all per-item tax amounts at a percentage
Matching(perItem, percent) == MatchingOfFirst(perItem, percent, Len(perItem))

Called == fn \in { "calculateInvoiceTotals", "calculatePerLineTotals" }

\* what a self-consistent total is, in cents
ConsistentTotal ==
    Cents(ret.subtotal) - Cents(ret.discountAmount)
    + (IF req.pricesIncludeTax THEN 0 ELSE Cents(ret.taxAmount))

\* C1: what calculateInvoiceTotals returns is self-consistent: total is
\* subtotal - discountAmount + taxAmount when prices exclude tax, and
\* subtotal - discountAmount when they include it.
C1_UniformTotalSelfConsistent ==
    fn = "calculateInvoiceTotals" => Cents(ret.total) = ConsistentTotal

\* C2: the discountAmount either function returns is not negative and not
\* above the subtotal it returns.
C2_DiscountWithinSubtotal ==
    Called => /\ 0 <= Cents(ret.discountAmount)
              /\ Cents(ret.discountAmount) <= Cents(ret.subtotal)

\* C3: with roundingMode "line", the discounts allocated to the lines add
\* up to the discountAmount returned, to the cent.
C3_LineDiscountsSumToDiscount ==
    (Called /\ req.roundingMode = "line" /\ Len(lineDiscounts) > 0)
        => CentsOf(lineDiscounts) = Cents(ret.discountAmount)

\* C4: what calculatePerLineTotals returns is self-consistent: total is
\* subtotal - discountAmount + taxAmount when prices exclude tax, and
\* subtotal - discountAmount when they include it.
C4_PerLineTotalSelfConsistent ==
    fn = "calculatePerLineTotals" => Cents(ret.total) = ConsistentTotal

\* C5: per-line, the amounts of the summary rows add up to the taxAmount
\* returned.
C5_SummaryAmountsSumToTaxAmount ==
    fn = "calculatePerLineTotals" =>
        CentsOf([j \in 1..Len(ret.summary) |-> ret.summary[j].amount])
            = Cents(ret.taxAmount)

\* C5 witness: two taxed lines that share a percentage, two summary rows,
\* and a tax that is not zero.
C5_Witness ==
    /\ fn = "calculatePerLineTotals"
    /\ Len(ret.perItem) = 2
    /\ Len(ret.summary) = 2
    /\ \A i \in 1..2 : Matching(<<ret.perItem[i]>>, ret.summary[1].percent) > 0
    /\ Cents(ret.summary[2].amount) > 0
    /\ Cents(ret.taxAmount) > 0

\* C6: per-line, there is one summary row per rounded percentage, its
\* amount is the sum of the per-item tax amounts at that percentage
\* whatever their tax definition, and every assessment has its row.
C6_SummaryGroupedByRate ==
    fn = "calculatePerLineTotals" =>
        /\ \A j \in 1..Len(ret.summary) :
              Cents(ret.summary[j].amount)
                  = Matching(ret.perItem, ret.summary[j].percent)
        /\ \A j, k \in 1..Len(ret.summary) :
              ret.summary[j].percent = ret.summary[k].percent => j = k
        /\ \A i \in 1..Len(ret.perItem) :
              \A k \in 1..Len(ret.perItem[i].taxes) :
                 \E j \in 1..Len(ret.summary) :
                    ret.summary[j].percent = ret.perItem[i].taxes[k].percent

\* C6 witness: two assessments of different tax definitions, whose
\* percentages 5 and 5.004 round to the same one, in a single row that
\* carries both amounts.
C6_Witness ==
    /\ fn = "calculatePerLineTotals"
    /\ Len(ret.perItem) = 2
    /\ ret.perItem[1].taxes[1].taxDefinitionId = "vat-a"
    /\ Len(ret.perItem[2].taxes) = 2
    /\ ret.perItem[2].taxes[1].taxDefinitionId = "vat-b"
    /\ req.items[1].taxes[1].percent # req.items[2].taxes[1].percent
    /\ ret.perItem[1].taxes[1].percent = ret.perItem[2].taxes[1].percent
    /\ Cents(ret.perItem[1].taxes[1].amount) > 0
    /\ Cents(ret.perItem[2].taxes[1].amount) > 0
    /\ \E j \in 1..Len(ret.summary) :
          /\ ret.summary[j].percent = ret.perItem[1].taxes[1].percent
          /\ Cents(ret.summary[j].amount)
                = Cents(ret.perItem[1].taxes[1].amount)
                  + Cents(ret.perItem[2].taxes[1].amount)

\* C7: a single line of gross G, no discount, prices that include tax at
\* rate r: taxAmount is G - G / (1 + r) rounded, total and subtotal are G.
C7_TaxInclusiveSingleItem ==
    (/\ fn = "calculateInvoiceTotals"
     /\ Len(req.items) = 1
     /\ req.pricesIncludeTax
     /\ req.discountPercentage = Zero
     /\ req.discountAmount = Zero)
        => /\ ret.taxAmount =
                 r2(FSub(lineGrosses[1],
                         FDiv(lineGrosses[1], FAdd(One, Rate(req.taxRate)))))
           /\ ret.total = r2(lineGrosses[1])
           /\ ret.subtotal = r2(lineGrosses[1])

\* C8: prices include tax; a second call that differs from the first in
\* the tax rate only, or in the assessments of a line only, returns the
\* same subtotal, discountAmount and total.
C8_TaxInclusiveTotalsIgnoreTax ==
    (Called /\ prev # NoCall /\ req.pricesIncludeTax)
        => /\ ret.subtotal = prev.subtotal
           /\ ret.discountAmount = prev.discountAmount
           /\ ret.total = prev.total

\* C8 witness: a second call on a discounted invoice of two lines, whose
\* taxAmount differs from the first call's.
C8_Witness ==
    /\ Called
    /\ prev # NoCall
    /\ req.pricesIncludeTax
    /\ Len(req.items) = 2
    /\ Cents(ret.discountAmount) > 0
    /\ Cents(ret.total) > 0
    /\ ret.taxAmount # prev.taxAmount

\* n * 100 is an integer and a half
HalfCent(n) == FMul(n, Hundred).e = -1

\* the integer next to the half p, away from zero
AwayFromZero(p) == p.s * ((BNToNat(p.m) + 1) \div 2)

\* C9: r2 takes an amount halfway between two cents to the cent farther
\* from zero, whatever its sign.
C9_HalfAwayFromZero ==
    (fn = "r2" /\ HalfCent(req.n))
        => Cents(ret) = AwayFromZero(FMul(req.n, Hundred))

\* the discount before it is clamped
ResolvedDiscount ==
    IF FGt(req.discountPercentage, Zero)
    THEN FMul(subtotal, FDiv(req.discountPercentage, Hundred))
    ELSE req.discountAmount

\* C10: the effective discount is subtotal * discountPercentage / 100 when
\* the percentage is positive and discountAmount otherwise, brought into
\* the range from 0 to subtotal.
C10_DiscountResolution ==
    Called =>
        /\ FLe(Zero, finalDiscountAmount)
        /\ FLe(finalDiscountAmount, subtotal)
        /\ finalDiscountAmount =
              IF FLt(ResolvedDiscount, Zero) THEN Zero
              ELSE IF FGt(ResolvedDiscount, subtotal) THEN subtotal
              ELSE ResolvedDiscount

----------------------------------------------------------------------------
(* Requests whose quantity or unit price is not a number (Number(x) is     *)
(* NaN), or whose quantity is negative.                                    *)

\* quantity and unit price: no quantity, no price, a negative quantity, and
\* a line that is in order
CoerceKinds ==
    { <<NaN, FromInt(50)>>, <<FromInt(2), NaN>>,
      <<FromInt(-2), FromInt(50)>>, <<FromInt(2), FromInt(50)>> }

CoerceItemLists ==
    UNION { SeqsOfLen({ Item(k[1], k[2], t) :
                          k \in CoerceKinds, t \in { <<>>, SingleTax } }, n) :
            n \in 1..MaxItems }

CoerceRequests ==
    { Request(its, d, FromInt(10), pit, rm) :
        its \in CoerceItemLists, d \in { <<Zero, Zero>>, <<FromInt(10), Zero>> },
        pit \in BOOLEAN, rm \in RoundingModes }

InitCoerce ==
    /\ req \in CoerceRequests
    /\ Idle
    /\ prev = NoCall
    /\ db = EmptyDb

SpecCoerce == InitCoerce /\ [][Next]_vars

\* the quantity or the unit price is not a number, or the quantity is
\* negative
Invalid(item) ==
    item.quantity.s = 2 \/ item.unitPrice.s = 2 \/ item.quantity.s = -1

\* C11: a line whose quantity or unit price is not a number, or whose
\* quantity is negative, has a gross amount of 0 in either function.
C11_InvalidInputsCoercedToZero ==
    Called => \A i \in 1..Len(req.items) :
                 Invalid(req.items[i]) => lineGrosses[i] = Zero

----------------------------------------------------------------------------
(* A request with assessments computed under roundingMode "line", then     *)
(* once more under "total": prev keeps what the first call returned.       *)

InitRemode ==
    /\ req \in { r \in PerLineRequests : r.roundingMode = "line" }
    /\ Idle
    /\ prev = NoCall
    /\ db = EmptyDb

\* the other rounding mode, nothing else changed
Remode ==
    /\ fn = "calculatePerLineTotals"
    /\ prev = NoCall
    /\ \E rm \in RoundingModes \ { req.roundingMode } :
          req' = [req EXCEPT !.roundingMode = rm]
    /\ prev' = ret
    /\ fn' = "none"
    /\ lineGrosses' = <<>>
    /\ subtotal' = Zero
    /\ finalDiscountAmount' = Zero
    /\ lineDiscounts' = <<>>
    /\ lines' = <<>>
    /\ ret' = NoCall
    /\ UNCHANGED db

NextRemode == CalculatePerLineTotals \/ Remode

SpecRemode == InitRemode /\ [][NextRemode]_vars

\* C12: calculatePerLineTotals returns the same totals, per-item breakdown
\* and summary under roundingMode "total" as under "line", and under
\* "total" too every line's share of the discount is rounded to cents.
C12_PerLineIgnoresRoundingMode ==
    (fn = "calculatePerLineTotals" /\ prev # NoCall) =>
        /\ ret = prev
        /\ \A i \in 1..Len(lineDiscounts) : r2(lineDiscounts[i]) = lineDiscounts[i]

\* C12 witness: the second call, under "total", of a request of two lines
\* with a discount allocated to both and a tax.
C12_Witness ==
    /\ fn = "calculatePerLineTotals"
    /\ prev # NoCall
    /\ req.roundingMode = "total"
    /\ Len(lineDiscounts) = 2
    /\ \A i \in 1..2 : Cents(lineDiscounts[i]) > 0
    /\ Cents(ret.taxAmount) > 0
    /\ ret = prev

----------------------------------------------------------------------------
(* A request computed, and computed again with the same arguments, either  *)
(* at once or after the call of another request: prev keeps the arguments  *)
(* and the result of the first call.  The locals of a call are left as     *)
(* they were when the next call starts.                                    *)

\* the requests computed twice: a percentage discount, rounding per line
RepeatRequests ==
    { r \in Requests : /\ r.discountPercentage = Dec(75, 10)
                       /\ r.discountAmount = Zero
                       /\ r.roundingMode = "line" }

\* the requests of the other callers
OtherRequests ==
    { Request(<< Item(FromInt(1), FromInt(121), <<>>) >>, <<Zero, Zero>>,
              FromInt(21), FALSE, "total"),
      Request(<< Item(FromInt(1), FromInt(22), DoubleTax) >>, <<Zero, FromInt(1000)>>,
              Zero, TRUE, "line") }

InitRepeat ==
    /\ req \in RepeatRequests
    /\ Idle
    /\ prev = NoCall
    /\ db = EmptyDb

\* the same arguments once more
Again ==
    /\ fn # "none"
    /\ prev = NoCall
    /\ prev' = [fn |-> fn, req |-> req, ret |-> ret, others |-> 0]
    /\ fn' = "none"
    /\ UNCHANGED <<req, lineGrosses, subtotal, finalDiscountAmount,
                   lineDiscounts, lines, ret, db>>

\* the call of another request comes in between
Interleave ==
    /\ fn # "none"
    /\ prev = NoCall
    /\ prev' = [fn |-> fn, req |-> req, ret |-> ret, others |-> 1]
    /\ req' \in OtherRequests
    /\ fn' = "none"
    /\ UNCHANGED <<lineGrosses, subtotal, finalDiscountAmount,
                   lineDiscounts, lines, ret, db>>

\* back to the first request, after the other call
Resume ==
    /\ fn # "none"
    /\ prev # NoCall
    /\ req # prev.req
    /\ req' = prev.req
    /\ fn' = "none"
    /\ UNCHANGED <<lineGrosses, subtotal, finalDiscountAmount,
                   lineDiscounts, lines, ret, prev, db>>

NextRepeat ==
    \/ CalculateInvoiceTotals
    \/ CalculatePerLineTotals
    \/ Again
    \/ Interleave
    \/ Resume

SpecRepeat == InitRepeat /\ [][NextRepeat]_vars

----------------------------------------------------------------------------
(* The product options: the rows of product_categories and product_units   *)
(* under the handlers of the product options controller, one handler at a  *)
(* time.  A row is its id, its code (UNIQUE) and is_builtin; name,         *)
(* sort_order and created_at take no part in any condition.  The products  *)
(* are stored by another controller: they are rows with the code of a      *)
(* category and the code of a unit, and stay as they are.                  *)

Option(id, code, isBuiltin) == [id |-> id, code |-> code, isBuiltin |-> isBuiltin]

\* the built-in rows of initDatabase, id = code: one of each table
BuiltinCategories == { Option("goods", "goods", TRUE) }
BuiltinUnits == { Option("piece", "piece", TRUE) }

\* the codes a caller may send for a category and for a unit
CategoryCodes == { "goods", "craft", "rental" }
UnitCodes == { "piece", "box", "pallet" }

\* crypto.randomUUID(): ids of the rows created by the handlers
CategoryIds == { "c1", "c2" }
UnitIds == { "n1", "n2" }

\* the rows of products, by category and unit code
ProductRows ==
    { [id |-> "p1", category |-> "craft", unit |-> "box"],
      [id |-> "p2", category |-> "goods", unit |-> "piece"] }

\* SELECT ... WHERE id = ?
OptionById(rows, id) == { r \in rows : r.id = id }

\* a deletion that never finds a product: not what the code does
NoUsage(products, code) == 0

\* SELECT COUNT(*) FROM products WHERE category = ?
CategoryUsage(products, code) == Cardinality({ p \in products : p.category = code })

\* SELECT COUNT(*) FROM products WHERE unit = ?
UnitUsage(products, code) == Cardinality({ p \in products : p.unit = code })

\* the locals of the totals functions, which the handlers do not have
locals == <<lineGrosses, subtotal, finalDiscountAmount, lineDiscounts, lines>>

InitOptions ==
    /\ req = NoCall
    /\ Idle
    /\ prev = NoCall
    /\ db \in { [EmptyDb EXCEPT !.product_categories = BuiltinCategories,
                                 !.product_units = BuiltinUnits,
                                 !.products = ps] : ps \in SUBSET ProductRows }

\* INSERT of a row (id, code, is_builtin 0) into a table with UNIQUE code
CreateOption(table, ids, codes, name) ==
    \E id \in ids, code \in codes :
       /\ OptionById(db[table], id) = {}
       /\ req' = [id |-> id, code |-> code]
       /\ fn' = name
       /\ IF { r \in db[table] : r.code = code } # {}
          THEN /\ ret' = "UNIQUE constraint failed"
               /\ UNCHANGED db
          ELSE /\ ret' = Option(id, code, FALSE)
               /\ db' = [db EXCEPT ![table] = @ \cup { Option(id, code, FALSE) }]
       /\ UNCHANGED <<locals, prev>>

\* UPDATE ... SET code = ?, name = ? WHERE id = ?; "" is no code in data
UpdateOption(table, ids, codes, name) ==
    \E id \in ids, code \in codes \cup { "" } :
       /\ req' = [id |-> id, code |-> code]
       /\ fn' = name
       /\ IF OptionById(db[table], id) = {}
          THEN /\ ret' = "null"
               /\ UNCHANGED db
          ELSE LET existing == CHOOSE r \in db[table] : r.id = id
                   updated == [existing EXCEPT
                                 !.code = IF code = "" THEN existing.code ELSE code]
               IN  IF { r \in db[table] : r.id # id /\ r.code = updated.code } # {}
                   THEN /\ ret' = "UNIQUE constraint failed"
                        /\ UNCHANGED db
                   ELSE /\ ret' = updated
                        /\ db' = [db EXCEPT ![table] = (@ \ { existing }) \cup { updated }]
       /\ UNCHANGED <<locals, prev>>

CreateCategory ==
    CreateOption("product_categories", CategoryIds, CategoryCodes, "createCategory")

UpdateCategory ==
    UpdateOption("product_categories", CategoryIds \cup { "goods" }, CategoryCodes,
                 "updateCategory")

DeleteCategory ==
    \E id \in CategoryIds \cup { "goods" } :
       /\ req' = [id |-> id]
       /\ fn' = "deleteCategory"
       /\ IF OptionById(db.product_categories, id) = {}
          THEN /\ ret' = "false"
               /\ UNCHANGED db
          ELSE LET existing == CHOOSE r \in db.product_categories : r.id = id
               IN  IF existing.isBuiltin
                   THEN /\ ret' = "Cannot delete built-in category"
                        /\ UNCHANGED db
                   ELSE IF CategoryUsage(db.products, existing.code) > 0
                   THEN /\ ret' = "Category is used by product(s)"
                        /\ UNCHANGED db
                   ELSE /\ ret' = "true"
                        /\ db' = [db EXCEPT !.product_categories = @ \ { existing }]
       /\ UNCHANGED <<locals, prev>>

CreateUnit == CreateOption("product_units", UnitIds, UnitCodes, "createUnit")

UpdateUnit ==
    UpdateOption("product_units", UnitIds \cup { "piece" }, UnitCodes, "updateUnit")

DeleteUnit ==
    \E id \in UnitIds \cup { "piece" } :
       /\ req' = [id |-> id]
       /\ fn' = "deleteUnit"
       /\ IF OptionById(db.product_units, id) = {}
          THEN /\ ret' = "false"
               /\ UNCHANGED db
          ELSE LET existing == CHOOSE r \in db.product_units : r.id = id
               IN  IF existing.isBuiltin
                   THEN /\ ret' = "Cannot delete built-in unit"
                        /\ UNCHANGED db
                   ELSE IF UnitUsage(db.products, existing.code) > 0
                   THEN /\ ret' = "Unit is used by product(s)"
                        /\ UNCHANGED db
                   ELSE /\ ret' = "true"
                        /\ db' = [db EXCEPT !.product_units = @ \ { existing }]
       /\ UNCHANGED <<locals, prev>>

NextOptions ==
    \/ CreateCategory
    \/ UpdateCategory
    \/ DeleteCategory
    \/ CreateUnit
    \/ UpdateUnit
    \/ DeleteUnit

SpecOptions == InitOptions /\ [][NextOptions]_vars

\* the rows of a table that a step removes: by id, a row whose code changes
\* stays
Removed(table) ==
    { r \in db[table] : OptionById(db'[table], r.id) = {} }

----------------------------------------------------------------------------
(* createInvoice, the handler as a whole, on the tables customers,         *)
(* invoices, invoice_items, invoice_item_taxes and invoice_taxes.  A       *)
(* request arrives (Submit) and is handled (CreateInvoice).  An invoice    *)
(* number is a pair of a prefix and a number, <<>> when the request        *)
(* carries none; under settings without a numbering pattern a request     *)
(* without a number gets a DRAFT- number.                                  *)

MaxInvoices == 2

\* the totals arguments of the requests: two lines with a discount and a
\* uniform rate, two lines with assessments and tax-inclusive prices
InvoiceTotalsRequests ==
    { Request(<< Item(FromInt(1), FromInt(121), <<>>), Item(FromInt(1), FromInt(22), <<>>) >>,
              <<Dec(75, 10), Zero>>, FromInt(10), FALSE, "line"),
      Request(<< Item(FromInt(1), FromInt(121), SingleTax),
                 Item(FromInt(1), FromInt(22), DoubleTax) >>,
              <<Zero, Zero>>, Zero, TRUE, "line") }

\* the fields a request may leave out, their defaults being settings
PolicyFields == { "taxRate", "pricesIncludeTax", "roundingMode" }

\* a request without the fields omits: a field left out reads as undefined,
\* here as the value that data.taxRate || 0 and the like make of undefined
Omitting(r, omits) ==
    [omits |-> omits,
     taxRate |-> IF "taxRate" \in omits THEN Zero ELSE r.taxRate,
     pricesIncludeTax |-> IF "pricesIncludeTax" \in omits THEN FALSE
                          ELSE r.pricesIncludeTax,
     roundingMode |-> IF "roundingMode" \in omits THEN "" ELSE r.roundingMode] @@ r

\* CreateInvoiceRequest: a stored or an unknown customer, no number or one
\* of two, a tax definition on the request without assessments, tax rate,
\* pricing flag and rounding mode given or all left out
CreateInvoiceRequests ==
    { [call |-> "createInvoice", customerId |-> c, invoiceNumber |-> n,
       status |-> "",
       taxDefinitionId |-> IF HasPerLineTaxes(r.items) THEN "" ELSE "vat-a"]
      @@ Omitting(r, o) :
        c \in { "cust-1", "cust-9" },
        n \in { <<>>, <<"INV", 1>>, <<"INV", 2>> },
        r \in InvoiceTotalsRequests,
        o \in { {}, PolicyFields } }

\* typeof data.taxRate === "number" ? data.taxRate : defaultTaxRate
TaxRateOrDefault(data, settings) ==
    IF "taxRate" \in data.omits THEN settings.defaultTaxRate ELSE data.taxRate

\* data.pricesIncludeTax ?? defaultPricesIncludeTax
PricesIncludeTaxOrDefault(data, settings) ==
    IF "pricesIncludeTax" \in data.omits THEN settings.defaultPricesIncludeTax
    ELSE data.pricesIncludeTax

\* data.roundingMode || defaultRoundingMode
RoundingModeOrDefault(data, settings) ==
    IF data.roundingMode = "" THEN settings.defaultRoundingMode
    ELSE data.roundingMode

\* the arguments createInvoice and updateInvoice pass to the totals
\* functions
TotalsArguments(data, settings) ==
    Request(data.items,
            <<NumberOr0(data.discountPercentage), NumberOr0(data.discountAmount)>>,
            TaxRateOrDefault(data, settings),
            PricesIncludeTaxOrDefault(data, settings),
            RoundingModeOrDefault(data, settings))

\* invoiceNumberPattern: none, one with {SEQ}, one without
Patterns == { "", "INV-{SEQ}", "INV-{YYYY}" }

\* /\{SEQ\}/.test(pattern)
HasSeq(pattern) == pattern = "INV-{SEQ}"

\* the greatest number of the series INV among the stored invoice numbers,
\* 0 without any
RECURSIVE MaxSeq(_)
MaxSeq(numbers) ==
    IF numbers = {} THEN 0
    ELSE LET n == CHOOSE x \in numbers : TRUE
         IN  IF n[1] = "INV" /\ n[2] > MaxSeq(numbers \ {n}) THEN n[2]
             ELSE MaxSeq(numbers \ {n})

\* getNextInvoiceNumber(): the text of a pattern without {SEQ}, or else the
\* series with the greatest stored number plus one
GetNextInvoiceNumber(d) ==
    IF d.settings.invoiceNumberPattern # "" /\ ~HasSeq(d.settings.invoiceNumberPattern)
    THEN <<d.settings.invoiceNumberPattern, 0>>
    ELSE <<"INV", MaxSeq({ i.invoiceNumber : i \in d.invoices }) + 1>>

\* generateDraftInvoiceNumber(): DRAFT- and six random characters
DraftInvoiceNumbers == { <<"DRAFT", k>> : k \in 1..MaxInvoices }

\* the numbers createInvoice may settle on for a request without a number
NewInvoiceNumbers(d) ==
    IF HasSeq(d.settings.invoiceNumberPattern) THEN { GetNextInvoiceNumber(d) }
    ELSE DraftInvoiceNumbers

\* a column invoice_number without UNIQUE: not the schema
NotUnique(d, id, invoiceNumber) == FALSE

\* invoice_number TEXT UNIQUE NOT NULL: the write of invoiceNumber to the
\* row id fails when another row carries it
UniqueFails(d, id, invoiceNumber) ==
    { i \in d.invoices : i.invoiceNumber = invoiceNumber /\ i.id # id } # {}

\* a createInvoice without the look-up of the invoice number: not what the
\* code does
CreateInvoiceErrorOfCustomer(data, d) ==
    IF { c \in d.customers : c.id = data.customerId } = {}
    THEN "Customer not found"
    ELSE ""

\* the error createInvoice throws before it writes, "" when it throws none
CreateInvoiceError(data, d) ==
    IF { c \in d.customers : c.id = data.customerId } = {}
    THEN "Customer not found"
    ELSE IF /\ data.invoiceNumber # <<>>
            /\ { i \in d.invoices : i.invoiceNumber = data.invoiceNumber } # {}
    THEN "Invoice number already exists"
    ELSE ""

\* the INSERTs of createInvoice for the totals computed: the invoice, its
\* items, the assessments of each item, the invoice's tax rows
InsertInvoice(d, invoiceId, invoiceNumber, data, totals) ==
    [d EXCEPT
       !.invoices = @ \cup
          { [id |-> invoiceId, invoiceNumber |-> invoiceNumber,
             customerId |-> data.customerId,
             status |-> IF data.status = "" THEN "draft" ELSE data.status,
             subtotal |-> totals.subtotal,
             discountAmount |-> totals.discountAmount,
             discountPercentage |-> NumberOr0(data.discountPercentage),
             taxRate |-> IF HasPerLineTaxes(data.items) THEN Zero
                         ELSE NumberOr0(data.taxRate),
             taxAmount |-> totals.taxAmount, total |-> totals.total,
             pricesIncludeTax |-> PricesIncludeTaxOrDefault(data, d.settings),
             roundingMode |-> RoundingModeOrDefault(data, d.settings)] },
       !.invoice_items = @ \cup
          { [id |-> <<invoiceId, i>>, invoiceId |-> invoiceId,
             quantity |-> data.items[i].quantity,
             unitPrice |-> data.items[i].unitPrice,
             lineTotal |-> FMul(data.items[i].quantity, data.items[i].unitPrice),
             sortOrder |-> i - 1] : i \in 1..Len(data.items) },
       !.invoice_item_taxes = @ \cup
          (IF HasPerLineTaxes(data.items)
           THEN UNION { { [id |-> <<invoiceId, i, k>>, invoiceItemId |-> <<invoiceId, i>>,
                           taxDefinitionId |-> totals.perItem[i].taxes[k].taxDefinitionId,
                           percent |-> totals.perItem[i].taxes[k].percent,
                           taxableAmount |-> totals.perItem[i].taxable,
                           amount |-> totals.perItem[i].taxes[k].amount,
                           included |-> PricesIncludeTaxOrDefault(data, d.settings)] :
                            k \in 1..Len(totals.perItem[i].taxes) } :
                        i \in 1..Len(data.items) }
           ELSE {}),
       !.invoice_taxes = @ \cup
          (IF HasPerLineTaxes(data.items)
           THEN { [id |-> <<invoiceId, k>>, invoiceId |-> invoiceId,
                   taxDefinitionId |-> "",
                   percent |-> totals.summary[k].percent,
                   taxableAmount |-> totals.summary[k].taxable,
                   taxAmount |-> totals.summary[k].amount] :
                    k \in 1..Len(totals.summary) }
           ELSE IF data.taxDefinitionId # ""
           THEN { [id |-> <<invoiceId, 1>>, invoiceId |-> invoiceId,
                   taxDefinitionId |-> data.taxDefinitionId,
                   percent |-> NumberOr0(data.taxRate),
                   taxableAmount |->
                      IF PricesIncludeTaxOrDefault(data, d.settings)
                      THEN Net(FSub(totals.subtotal, totals.discountAmount),
                               FDiv(NumberOr0(data.taxRate), Hundred))
                      ELSE FSub(totals.subtotal, totals.discountAmount),
                   taxAmount |-> totals.taxAmount] }
           ELSE {})]

InitInvoices ==
    /\ req = NoCall
    /\ Idle
    /\ prev = NoCall
    /\ db = [EmptyDb EXCEPT !.customers = { [id |-> "cust-1"] }]

\* a request arrives, once the one before is handled
Submit ==
    /\ req = NoCall \/ fn # "none"
    /\ Cardinality(db.invoices) < MaxInvoices
    /\ req' \in CreateInvoiceRequests
    /\ fn' = "none"
    /\ ret' = NoCall
    /\ UNCHANGED <<locals, prev, db>>

\* createInvoice(data): the two look-ups, the totals, the INSERTs under a
\* new id and under the number of the request, looked up before, or else
\* under the next number of a pattern with {SEQ} or a DRAFT- number that no
\* stored invoice carries
CreateInvoiceOf(data) ==
    IF CreateInvoiceError(data, db) # ""
    THEN /\ ret' = [error |-> CreateInvoiceError(data, db)]
         /\ UNCHANGED <<locals, db>>
    ELSE /\ IF HasPerLineTaxes(data.items)
            THEN PerLineTotalsOf(TotalsArguments(data, db.settings))
            ELSE InvoiceTotalsOf(TotalsArguments(data, db.settings))
         /\ \E invoiceNumber \in
                IF data.invoiceNumber # <<>> THEN { data.invoiceNumber }
                ELSE NewInvoiceNumbers(db) \
                     { i.invoiceNumber : i \in db.invoices } :
               db' = InsertInvoice(db, <<"inv", Cardinality(db.invoices) + 1>>,
                                   invoiceNumber, data, ret')

\* createInvoice(req), whole
CreateInvoice ==
    /\ fn = "none"
    /\ req # NoCall
    /\ req.call = "createInvoice"
    /\ fn' = "createInvoice"
    /\ CreateInvoiceOf(req)
    /\ UNCHANGED <<req, prev>>

NextInvoices == Submit \/ CreateInvoice

SpecInvoices == InitInvoices /\ [][NextInvoices]_vars

\* C15: a createInvoice whose customerId is the id of no stored customer
\* fails with "Customer not found", one whose invoiceNumber is given and
\* carried by a stored invoice fails with "Invoice number already exists",
\* and both leave every table as it was.
C15_CreateInvoiceValidatesBeforeWrites ==
    [][(fn = "none" /\ fn' = "createInvoice") =>
          /\ ({ c \in db.customers : c.id = req.customerId } = {}) =>
                 (ret' = [error |-> "Customer not found"] /\ db' = db)
          /\ (/\ { c \in db.customers : c.id = req.customerId } # {}
              /\ req.invoiceNumber # <<>>
              /\ { i \in db.invoices : i.invoiceNumber = req.invoiceNumber } # {}) =>
                 (ret' = [error |-> "Invoice number already exists"] /\ db' = db)]_vars

\* C15 witness: createInvoice has failed for a number that a stored invoice
\* with assessment rows carries, and that invoice is the only one stored.
C15_Witness ==
    /\ fn = "createInvoice"
    /\ ret = [error |-> "Invoice number already exists"]
    /\ Cardinality(db.invoices) = 1
    /\ \E i \in db.invoices : i.invoiceNumber = req.invoiceNumber
    /\ db.invoice_item_taxes # {}
    /\ db.invoice_taxes # {}

----------------------------------------------------------------------------
(* The allocation of the discount, line by line.                           *)

\* what is left of the discount after the shares of the lines before the
\* last: finalDiscountAmount - distributed
Residual ==
    FSub(finalDiscountAmount, Sum(SubSeq(lineDiscounts, 1, Len(lineDiscounts) - 1)))

\* C16: when the discount is distributed, every line but the last receives
\* r2(finalDiscountAmount * gross / subtotal) and the last line receives
\* what is left, finalDiscountAmount minus the shares of the lines before
\* it: its share differs from that remainder by less than a twentieth of a
\* cent.
C16_LastLineAbsorbsResidual ==
    (Called /\ lineDiscounts # <<>> /\ subtotal # Zero) =>
        /\ \A i \in 1..(Len(lineDiscounts) - 1) :
              lineDiscounts[i] =
                 r2(FMul(finalDiscountAmount, FDiv(lineGrosses[i], subtotal)))
        /\ Cents(FMul(FSub(Residual, lineDiscounts[Len(lineDiscounts)]),
                      FromInt(10))) = 0

----------------------------------------------------------------------------
(* The uniform rate, line by line and on the aggregate.                    *)

\* Math.max(0, gross - lineDiscount) of line i, from the locals of the call
LineAfterDiscount(i) == AfterDiscount(lineGrosses[i], lineDiscounts[i])

\* C17: calculateInvoiceTotals with roundingMode "line", subtotal > 0 and
\* prices that exclude tax: the tax of a line is r2(afterDiscount * rate),
\* what it adds to the total is r2(afterDiscount + tax), and taxAmount and
\* total are the sums of these per-line amounts, to the cent.
C17_UniformLineModeTaxExclusive ==
    (/\ fn = "calculateInvoiceTotals"
     /\ req.roundingMode = "line"
     /\ FGt(subtotal, Zero)
     /\ ~req.pricesIncludeTax) =>
        /\ Len(lines) = Len(req.items)
        /\ \A i \in 1..Len(lines) :
              /\ lines[i].tax = r2(FMul(LineAfterDiscount(i), Rate(req.taxRate)))
              /\ lines[i].total = r2(FAdd(LineAfterDiscount(i), lines[i].tax))
        /\ Cents(ret.taxAmount) = CentsOf([i \in 1..Len(lines) |-> lines[i].tax])
        /\ Cents(ret.total) = CentsOf([i \in 1..Len(lines) |-> lines[i].total])

\* C17 witness: the example, two units at 50 without discount at 10 %,
\* has returned subtotal 100, discountAmount 0, taxAmount 10, total 110.
C17_Witness ==
    /\ fn = "calculateInvoiceTotals"
    /\ req.roundingMode = "line"
    /\ ~req.pricesIncludeTax
    /\ req.items = << Item(FromInt(2), FromInt(50), <<>>) >>
    /\ req.taxRate = FromInt(10)
    /\ ret = [subtotal |-> FromInt(100), discountAmount |-> Zero,
              taxAmount |-> FromInt(10), total |-> FromInt(110)]

----------------------------------------------------------------------------
(* The assessments of an item.                                             *)

\* the taxable base of item i: afterDiscount, divided by 1 + the sum of the
\* item's rates when prices include tax and that sum is positive
LineNet(i) ==
    IF req.pricesIncludeTax /\ FGt(RateSum(req.items[i].taxes), Zero)
    THEN FDiv(LineAfterDiscount(i), FAdd(One, RateSum(req.items[i].taxes)))
    ELSE LineAfterDiscount(i)

\* C18: calculatePerLineTotals takes each assessment of an item on the same
\* base, the item's net amount: its amount is r2(net * percent / 100),
\* whatever the other assessments of the item are, and the taxable amount
\* returned for the item is r2(net).
C18_AssessmentsIndependent ==
    fn = "calculatePerLineTotals" =>
        /\ Len(ret.perItem) = Len(req.items)
        /\ \A i \in 1..Len(req.items) :
              /\ ret.perItem[i].taxable = r2(LineNet(i))
              /\ Len(ret.perItem[i].taxes) = Len(req.items[i].taxes)
              /\ \A k \in 1..Len(req.items[i].taxes) :
                    ret.perItem[i].taxes[k].amount =
                       r2(FMul(LineNet(i),
                               FDiv(NumberOr0(req.items[i].taxes[k].percent), Hundred)))

\* C18 witness: the example, one line of 100 with assessments of 5 % and
\* 10 % and prices excluding tax, has returned the amounts 5 and 10, the
\* summary rows {5, 100, 5} and {10, 100, 10}, taxAmount 15 and total 115.
C18_Witness ==
    /\ fn = "calculatePerLineTotals"
    /\ ~req.pricesIncludeTax
    /\ ret = [subtotal |-> FromInt(100), discountAmount |-> Zero,
              taxAmount |-> FromInt(15), total |-> FromInt(115),
              perItem |-> << [taxable |-> FromInt(100),
                              taxes |-> << [percent |-> FromInt(5), amount |-> FromInt(5),
                                            taxDefinitionId |-> "vat-a"],
                                           [percent |-> FromInt(10), amount |-> FromInt(10),
                                            taxDefinitionId |-> "city"] >>] >>,
              summary |-> << [percent |-> FromInt(5), taxable |-> FromInt(100),
                              amount |-> FromInt(5)],
                             [percent |-> FromInt(10), taxable |-> FromInt(100),
                              amount |-> FromInt(10)] >>]

\* subtotal - finalDiscountAmount, from the locals of the call
AggregateAfterDiscount == FSub(subtotal, finalDiscountAmount)

\* C19: calculateInvoiceTotals with roundingMode "total", or with a
\* subtotal of 0 under either mode, computes tax and total once, on
\* afterDiscount = subtotal - finalDiscountAmount and without any per-line
\* amount: taxAmount = r2(afterDiscount * rate) and total =
\* r2(afterDiscount + taxAmount) when prices exclude tax, taxAmount =
\* r2(afterDiscount - afterDiscount / (1 + rate)) and total =
\* r2(afterDiscount) when they include it.
C19_UniformAggregate ==
    (fn = "calculateInvoiceTotals" /\ (req.roundingMode = "total" \/ subtotal = Zero)) =>
        /\ lines = <<>>
        /\ lineDiscounts = <<>>
        /\ IF req.pricesIncludeTax
           THEN /\ ret.taxAmount =
                      r2(FSub(AggregateAfterDiscount,
                              FDiv(AggregateAfterDiscount,
                                   FAdd(One, Rate(req.taxRate)))))
                /\ ret.total = r2(AggregateAfterDiscount)
           ELSE /\ ret.taxAmount = r2(FMul(AggregateAfterDiscount, Rate(req.taxRate)))
                /\ ret.total = r2(FAdd(AggregateAfterDiscount, ret.taxAmount))

\* C19 witness: a call with roundingMode "total" for two lines, a discount
\* and a rate, prices excluding tax, has returned a tax.
C19_Witness ==
    /\ fn = "calculateInvoiceTotals"
    /\ req.roundingMode = "total"
    /\ ~req.pricesIncludeTax
    /\ Len(req.items) = 2
    /\ lines = <<>>
    /\ Cents(ret.discountAmount) > 0
    /\ Cents(ret.taxAmount) > 0
    /\ Cents(ret.total) = Cents(AggregateAfterDiscount) + Cents(ret.taxAmount)

----------------------------------------------------------------------------
(* The taxable bases of the summary.                                       *)

\* how many assessments of item i carry the rounded percentage
Occurrences(i, percent) ==
    Cardinality({ k \in 1..Len(ret.perItem[i].taxes) :
                    ret.perItem[i].taxes[k].percent = percent })

\* the cents of the net amounts of the first n items, each counted once
\* per assessment at the percentage
RECURSIVE NetsOfFirst(_, _)
NetsOfFirst(percent, n) ==
    IF n = 0 THEN 0
    ELSE NetsOfFirst(percent, n - 1) + Occurrences(n, percent) * Cents(LineNet(n))

\* C20: the summary of calculatePerLineTotals has its rows in strictly
\* ascending order of percentage, a row for the rounded percentage of every
\* assessment of every item and no other row, and the taxable base of a
\* row is the sum of the items' net amounts, rounded to cents item by item
\* as the per-item breakdown shows them, each counted once per assessment
\* at that percentage.
C20_SummaryRowsAndTaxableBase ==
    fn = "calculatePerLineTotals" =>
        /\ \A j \in 1..(Len(ret.summary) - 1) :
              FLt(ret.summary[j].percent, ret.summary[j + 1].percent)
        /\ \A i \in 1..Len(req.items) :
              \A k \in 1..Len(req.items[i].taxes) :
                 \E j \in 1..Len(ret.summary) :
                    ret.summary[j].percent = r2(NumberOr0(req.items[i].taxes[k].percent))
        /\ \A j \in 1..Len(ret.summary) :
              /\ \E i \in 1..Len(req.items) :
                    \E k \in 1..Len(req.items[i].taxes) :
                       ret.summary[j].percent = r2(NumberOr0(req.items[i].taxes[k].percent))
              /\ Cents(ret.summary[j].taxable)
                    = NetsOfFirst(ret.summary[j].percent, Len(req.items))

\* C20 witness: two lines with tax-inclusive prices whose assessments at
\* 5 % and 5.004 % share the first of two rows, and its taxable base is the
\* sum of the two lines' net amounts in cents.
C20_Witness ==
    /\ fn = "calculatePerLineTotals"
    /\ req.pricesIncludeTax
    /\ Len(req.items) = 2
    /\ Len(ret.summary) = 2
    /\ \A i \in 1..2 : Occurrences(i, ret.summary[1].percent) = 1
    /\ \A i \in 1..2 : Cents(LineNet(i)) > 0
    /\ Cents(ret.summary[1].taxable) = Cents(LineNet(1)) + Cents(LineNet(2))
    /\ Cents(ret.summary[2].taxable) = Cents(LineNet(2))


----------------------------------------------------------------------------
(* updateInvoice, the handler as a whole.  A request names the invoice by  *)
(* its id; without items it carries at most a new status, with items the   *)
(* totals are computed again and the rows of the invoice are replaced.     *)
(* The columns issue_date, due_date, currency, payment_terms, notes,       *)
(* share_token, created_at and updated_at are not part of the rows.        *)

InvoiceIds == { <<"inv", k>> : k \in 1..MaxInvoices }

\* the totals the two functions return, by their arguments
TotalsOfArguments(args) ==
    IF HasPerLineTaxes(args.items) THEN CalculatePerLineTotalsOf(args)
    ELSE CalculateInvoiceTotalsOf(args)

\* the rows of invoice_items of an invoice, ORDER BY sort_order
RECURSIVE ItemsInOrder(_)
ItemsInOrder(rows) ==
    IF rows = {} THEN <<>>
    ELSE LET first == CHOOSE r \in rows : \A q \in rows : r.sortOrder <= q.sortOrder
         IN  <<first>> \o ItemsInOrder(rows \ {first})

\* the rows of invoice_item_taxes of an item, in the order of their insertion
RECURSIVE ItemTaxesInOrder(_)
ItemTaxesInOrder(rows) ==
    IF rows = {} THEN <<>>
    ELSE LET first == CHOOSE r \in rows : \A q \in rows : r.id[3] <= q.id[3]
         IN  << [taxDefinitionId |-> first.taxDefinitionId, percent |-> first.percent,
                 taxableAmount |-> first.taxableAmount, amount |-> first.amount,
                 included |-> first.included] >>
             \o ItemTaxesInOrder(rows \ {first})

\* items.map(it => ({ ...it, taxes: taxesByItem.get(it.id) }))
ItemsWithTaxes(d, items) ==
    [k \in 1..Len(items) |->
        [taxes |-> ItemTaxesInOrder({ t \in d.invoice_item_taxes :
                                        t.invoiceItemId = items[k].id })]
        @@ items[k]]

\* what getInvoiceById(id) returns: the row of the invoice with its
\* customer, its items and their assessments, and its tax rows; null
\* without a row
NoInvoice == [null |-> TRUE]

GetInvoiceById(d, id) ==
    IF { i \in d.invoices : i.id = id } = {} THEN NoInvoice
    ELSE [customer |->
             IF { c \in d.customers :
                    c.id = (CHOOSE i \in d.invoices : i.id = id).customerId } = {}
             THEN "(Deleted Customer)"
             ELSE (CHOOSE i \in d.invoices : i.id = id).customerId,
          items |-> ItemsWithTaxes(d, ItemsInOrder({ it \in d.invoice_items :
                                                       it.invoiceId = id })),
          taxes |-> { t \in d.invoice_taxes : t.invoiceId = id }]
         @@ (CHOOSE i \in d.invoices : i.id = id)

\* UPDATE invoices SET status = ? WHERE id = ?
SetStatus(d, id, status) ==
    [d EXCEPT !.invoices =
        { IF i.id = id THEN [i EXCEPT !.status = status] ELSE i : i \in @ }]

\* the UPDATE of updateInvoice with items: the row of the invoice with the
\* totals computed and, for what the request leaves out, what the row held
UpdatedInvoice(existing, data, invoiceNumber, totals) ==
    [existing EXCEPT
       !.invoiceNumber = invoiceNumber,
       !.status = IF data.status = "" THEN existing.status ELSE data.status,
       !.subtotal = totals.subtotal,
       !.discountAmount = totals.discountAmount,
       !.discountPercentage =
           IF "discountPercentage" \in data.omits THEN existing.discountPercentage
           ELSE data.discountPercentage,
       !.taxRate = IF HasPerLineTaxes(data.items) THEN Zero
                   ELSE IF "taxRate" \in data.omits THEN existing.taxRate
                   ELSE data.taxRate,
       !.taxAmount = totals.taxAmount,
       !.total = totals.total,
       !.pricesIncludeTax =
           IF "pricesIncludeTax" \in data.omits THEN existing.pricesIncludeTax
           ELSE data.pricesIncludeTax,
       !.roundingMode = IF data.roundingMode # "" THEN data.roundingMode
                        ELSE IF existing.roundingMode # "" THEN existing.roundingMode
                        ELSE "line"]

\* DELETE FROM invoice_items and DELETE FROM invoice_taxes WHERE invoice_id
\* = id; the rows of invoice_item_taxes go with their items (ON DELETE
\* CASCADE)
DeleteItemsAndTaxes(d, id) ==
    [d EXCEPT
       !.invoice_items = { it \in @ : it.invoiceId # id },
       !.invoice_item_taxes = { t \in @ : t.invoiceItemId[1] # id },
       !.invoice_taxes = { t \in @ : t.invoiceId # id }]

\* the INSERTs of updateInvoice: the items, the assessments of each item,
\* the tax rows of the invoice.  The uniform tax row carries data.taxRate
\* || 0 as percent and the pricing flag of the call.
InsertItemsAndTaxes(d, id, data, totals) ==
    [d EXCEPT
       !.invoice_items = @ \cup
          { [id |-> <<id, i>>, invoiceId |-> id,
             quantity |-> data.items[i].quantity,
             unitPrice |-> data.items[i].unitPrice,
             lineTotal |-> FMul(data.items[i].quantity, data.items[i].unitPrice),
             sortOrder |-> i - 1] : i \in 1..Len(data.items) },
       !.invoice_item_taxes = @ \cup
          (IF HasPerLineTaxes(data.items)
           THEN UNION { { [id |-> <<id, i, k>>, invoiceItemId |-> <<id, i>>,
                           taxDefinitionId |-> totals.perItem[i].taxes[k].taxDefinitionId,
                           percent |-> totals.perItem[i].taxes[k].percent,
                           taxableAmount |-> totals.perItem[i].taxable,
                           amount |-> totals.perItem[i].taxes[k].amount,
                           included |-> PricesIncludeTaxOrDefault(data, d.settings)] :
                            k \in 1..Len(totals.perItem[i].taxes) } :
                        i \in 1..Len(data.items) }
           ELSE {}),
       !.invoice_taxes = @ \cup
          (IF HasPerLineTaxes(data.items)
           THEN { [id |-> <<id, k>>, invoiceId |-> id,
                   taxDefinitionId |-> "",
                   percent |-> totals.summary[k].percent,
                   taxableAmount |-> totals.summary[k].taxable,
                   taxAmount |-> totals.summary[k].amount] :
                    k \in 1..Len(totals.summary) }
           ELSE IF data.taxDefinitionId # ""
           THEN { [id |-> <<id, 1>>, invoiceId |-> id,
                   taxDefinitionId |-> data.taxDefinitionId,
                   percent |-> NumberOr0(data.taxRate),
                   taxableAmount |->
                      IF PricesIncludeTaxOrDefault(data, d.settings)
                      THEN Net(FSub(totals.subtotal, totals.discountAmount),
                               FDiv(NumberOr0(data.taxRate), Hundred))
                      ELSE FSub(totals.subtotal, totals.discountAmount),
                   taxAmount |-> totals.taxAmount] }
           ELSE {})]

\* the writes of updateInvoice with items, one after the other: the row
\* of the invoice, the DELETEs, the INSERTs
FullUpdate(d, id, data, invoiceNumber, totals) ==
    InsertItemsAndTaxes(
        DeleteItemsAndTaxes(
            [d EXCEPT !.invoices =
                { IF i.id = id THEN UpdatedInvoice(i, data, invoiceNumber, totals)
                  ELSE i : i \in @ }],
            id),
        id, data, totals)

\* the error updateInvoice throws before it writes, "" when it throws none
UpdateInvoiceError(data, d) ==
    IF { i \in d.invoices : i.id = data.id } = {} THEN "Invoice not found"
    ELSE IF /\ data.items # <<>>
            /\ data.invoiceNumber # <<>>
            /\ data.invoiceNumber #
                   (CHOOSE i \in d.invoices : i.id = data.id).invoiceNumber
            /\ { i \in d.invoices : /\ i.invoiceNumber = data.invoiceNumber
                                     /\ i.id # data.id } # {}
    THEN "Invoice number already exists"
    ELSE ""

\* an updateInvoice that, without items, still writes the invoice number
\* of the request: not what the code does
StatusUpdateWithNumber(d, data) ==
    [d EXCEPT !.invoices =
        { IF i.id = data.id
          THEN [i EXCEPT !.status = IF data.status = "" THEN @ ELSE data.status,
                         !.invoiceNumber =
                             IF data.invoiceNumber = <<>> THEN @
                             ELSE data.invoiceNumber]
          ELSE i : i \in @ }]

\* the status-only branch of updateInvoice: UPDATE invoices SET status
\* when the request carries one
StatusUpdate(d, data) ==
    IF data.status # "" THEN SetStatus(d, data.id, data.status) ELSE d

\* updateInvoice(req.id, req), whole: the invoice is looked up; without
\* items the status is written, if any; with items the totals are
\* computed, the number is checked, and the rows are written
UpdateInvoice ==
    /\ fn = "none"
    /\ req # NoCall
    /\ req.call = "updateInvoice"
    /\ fn' = "updateInvoice"
    /\ IF UpdateInvoiceError(req, db) # ""
       THEN /\ ret' = [error |-> UpdateInvoiceError(req, db)]
            /\ db' = db
       ELSE /\ db' = IF req.items = <<>> THEN StatusUpdate(db, req)
                     ELSE FullUpdate(db, req.id, req,
                              IF req.invoiceNumber # <<>> THEN req.invoiceNumber
                              ELSE (CHOOSE i \in db.invoices : i.id = req.id).invoiceNumber,
                              TotalsOfArguments(TotalsArguments(req, db.settings)))
            /\ ret' = GetInvoiceById(db', req.id)
    /\ UNCHANGED <<req, locals, prev>>

\* settings other than the defaults of a table without rows
OtherSettings ==
    [defaultTaxRate |-> FromInt(10), defaultPricesIncludeTax |-> TRUE,
     defaultRoundingMode |-> "total", invoiceNumberPattern |-> ""]

\* UpdateInvoiceRequest for the invoice id: items or none, a status or
\* none, an invoice number or none, the other fields of r without omits
UpdateInvoiceRequest(id, items, status, invoiceNumber, r, omits) ==
    [call |-> "updateInvoice", id |-> id, items |-> items, status |-> status,
     invoiceNumber |-> invoiceNumber,
     discountPercentage |-> IF "discountPercentage" \in omits THEN Zero
                            ELSE r.discountPercentage,
     taxDefinitionId |-> IF HasPerLineTaxes(items) THEN "" ELSE "vat-a"]
    @@ Omitting(r, omits)

\* requests without items: a status or none, alone or with an invoice
\* number, a discount, a tax rate, a pricing flag and a rounding mode
StatusRequests ==
    { UpdateInvoiceRequest(id, <<>>, st, o[1], r, o[2]) :
        id \in InvoiceIds, st \in { "", "sent", "paid" },
        o \in { <<<<>>, PolicyFields \cup { "discountPercentage" }>>,
                <<<<"INV", 2>>, {}>> },
        r \in { q \in InvoiceTotalsRequests : ~HasPerLineTaxes(q.items) } }

InitStatus ==
    /\ req = NoCall
    /\ Idle
    /\ prev = NoCall
    /\ db \in { [EmptyDb EXCEPT !.customers = { [id |-> "cust-1"] },
                                !.settings = s] : s \in { NoSettings, OtherSettings } }

\* a createInvoice request arrives while no invoice is stored
SubmitFirst ==
    /\ db.invoices = {}
    /\ Submit

\* an updateInvoice request without items arrives, once the request
\* before is handled
SubmitStatus ==
    /\ req = NoCall \/ fn # "none"
    /\ req' \in StatusRequests
    /\ fn' = "none"
    /\ ret' = NoCall
    /\ UNCHANGED <<locals, prev, db>>

NextStatus == SubmitFirst \/ CreateInvoice \/ SubmitStatus \/ UpdateInvoice

SpecStatus == InitStatus /\ [][NextStatus]_vars

\* C21: an updateInvoice without items leaves every table but invoices as
\* it was, and in invoices it changes at most the status of the invoice
\* named: subtotal, discount, tax, total, tax rate, pricing flag, rounding
\* mode, invoice number and customer of every row stay, whatever the
\* request carries besides.
C21_StatusOnlyUpdate ==
    [][(fn = "none" /\ fn' = "updateInvoice" /\ req.items = <<>>) =>
          /\ [db' EXCEPT !.invoices = {}] = [db EXCEPT !.invoices = {}]
          /\ { i.id : i \in db'.invoices } = { i.id : i \in db.invoices }
          /\ \A i \in db.invoices : \A j \in db'.invoices :
                 i.id = j.id =>
                    /\ [j EXCEPT !.status = i.status] = i
                    /\ i.id # req.id => j = i]_vars

\* C21 witness: an updateInvoice without items, carrying a new status, an
\* invoice number and a tax rate other than the stored ones, has changed
\* the status of an invoice with assessment rows.
C21_Witness ==
    /\ fn = "updateInvoice"
    /\ req.items = <<>>
    /\ req.status = "sent"
    /\ db.invoice_item_taxes # {}
    /\ \E i \in db.invoices :
          /\ i.id = req.id
          /\ i.status = "sent"
          /\ req.invoiceNumber # <<>>
          /\ i.invoiceNumber # req.invoiceNumber
          /\ i.taxRate # req.taxRate
          /\ ret = GetInvoiceById(db, req.id)

----------------------------------------------------------------------------
(* runWithDatabase and getDatabase.  db holds the module's variables       *)
(* (storage, _requestDb, _db), req the calls of runWithDatabase: the       *)
(* database each was given, where it stands, its prevDb and the store of   *)
(* its asynchronous context.  A callback runs from its call up to its      *)
(* first await, and from one await to the next, without interruption;      *)
(* between two of its steps any other call may start, run or end.          *)

MaxCalls == 3

Calls == 1..MaxCalls

\* the databases of the requests, one object for each request
DatabaseOf(c) == << "d1-a", "d1-b", "d1-c", "d1-d" >>[c]

\* getDatabase() in the callback of the call c; "undefined" stands for
\* undefined, and a call without an initialized database throws
GetDatabaseIn(module, call) ==
    IF module.storage /\ call.store # "undefined" THEN call.store
    ELSE IF module._requestDb # "undefined" THEN module._requestDb
    ELSE IF module._db = "undefined" THEN "Database not initialized"
    ELSE module._db

\* finally { _requestDb = prevDb } of the fallback; storage.run leaves the
\* module's variables alone
Restored(module, call) ==
    IF module.storage THEN module
    ELSE [module EXCEPT !._requestDb = call.prevDb]

InitScope ==
    /\ req = [c \in Calls |-> [db |-> DatabaseOf(c), pc |-> "idle",
                               prevDb |-> "undefined", store |-> "undefined"]]
    /\ Idle
    /\ prev = NoCall
    /\ db \in { [storage |-> s, _requestDb |-> "undefined", _db |-> g] :
                  s \in BOOLEAN, g \in { "undefined", "sqlite" } }

\* runWithDatabase(db, fn) up to the first await of fn: storage.run binds
\* the store of the callback's context, the fallback saves _requestDb and
\* overwrites it
RunWithDatabase ==
    \E c \in Calls :
       /\ req[c].pc = "idle"
       /\ fn' = "runWithDatabase"
       /\ IF db.storage
          THEN /\ req' = [req EXCEPT ![c].pc = "fn", ![c].store = req[c].db]
               /\ db' = db
          ELSE /\ req' = [req EXCEPT ![c].pc = "fn", ![c].prevDb = db._requestDb]
               /\ db' = [db EXCEPT !._requestDb = req[c].db]
       /\ UNCHANGED <<locals, ret, prev>>

\* the callback of a call in progress calls getDatabase()
GetDatabase ==
    \E c \in Calls :
       /\ req[c].pc = "fn"
       /\ fn' = "getDatabase"
       /\ ret' = [call |-> c, db |-> GetDatabaseIn(db, req[c])]
       /\ UNCHANGED <<req, locals, prev, db>>

\* the callback of a call returns or throws, and the finally block runs
Finally ==
    \E c \in Calls, outcome \in { "returned", "thrown" } :
       /\ req[c].pc = "fn"
       /\ fn' = "finally"
       /\ req' = [req EXCEPT ![c].pc = outcome]
       /\ db' = Restored(db, req[c])
       /\ UNCHANGED <<locals, ret, prev>>

NextScope == RunWithDatabase \/ GetDatabase \/ Finally

SpecScope == InitScope /\ [][NextScope]_vars

\* C22: every getDatabase() of the callback of runWithDatabase(db, fn)
\* returns that db, whatever other calls of runWithDatabase have started
\* or ended since the callback began, with AsyncLocalStorage and without.
C22_RequestScopedDatabase ==
    fn = "getDatabase" => ret.db = req[ret.call].db

\* C23: when no call of runWithDatabase is in progress, _requestDb holds
\* what it held before the first call started: undefined.
C23_RequestDatabaseRestored ==
    (\A c \in Calls : req[c].pc # "fn") => db._requestDb = "undefined"

----------------------------------------------------------------------------
(* Invoice numbers under concurrent requests.  req holds the requests in   *)
(* progress, one for each slot: a handler runs its reads (the look-up of   *)
(* the invoice, of the number, of the settings and of the numbers stored)  *)
(* and then, after other requests may have read and written, its writes.   *)
(* The column invoice_number is UNIQUE NOT NULL: a write that would store  *)
(* a number twice fails, and the handler throws.  An invoice number is a   *)
(* pair of a series and a number: DRAFT-..., INV-... and the one number of *)
(* a pattern without {SEQ}.                                                *)

MaxRequests == 2

Slots == 1..MaxRequests

NoRequest == [call |-> "none"]

\* the one list of items of the requests of this part
NumberedTotalsRequest ==
    Request(<< Item(FromInt(1), FromInt(22), <<>>) >>, <<Zero, Zero>>,
            FromInt(10), FALSE, "line")

\* the totals of the arguments in requests: the specifications of
\* concurrent requests compute them once, at the start, and keep them in
\* prev, where the handlers look them up by their arguments
TotalsTable(requests) == [args \in requests |-> TotalsOfArguments(args)]

\* createInvoice with or without a number, updateInvoice with items and a
\* number or none, publishInvoice
NumberRequests ==
    { [call |-> "createInvoice", customerId |-> "cust-1", invoiceNumber |-> n,
       status |-> "", taxDefinitionId |-> ""] @@ Omitting(NumberedTotalsRequest, {}) :
        n \in { <<>>, <<"INV", 1>> } }
    \cup { UpdateInvoiceRequest(id, NumberedTotalsRequest.items, "", n,
                                NumberedTotalsRequest, {}) :
             id \in InvoiceIds, n \in { <<>>, <<"INV", 1>> } }
    \cup { [call |-> "publishInvoice", id |-> id] : id \in InvoiceIds }

InitNumbers ==
    /\ req = [p \in Slots |-> NoRequest]
    /\ Idle
    /\ prev = TotalsTable({ NumberedTotalsRequest })
    /\ db \in { [EmptyDb EXCEPT !.customers = { [id |-> "cust-1"] },
                                !.settings.invoiceNumberPattern = pattern] :
                  pattern \in Patterns }

\* the number publishInvoice writes for the invoice it has read: the next
\* number for a DRAFT- number, none otherwise
PublishedNumber(d, invoice) ==
    IF invoice.invoiceNumber[1] = "DRAFT" THEN GetNextInvoiceNumber(d) ELSE <<>>

\* the handler of the request r ends in its reads, throwing an error or
\* returning the invoice, of which ret keeps the id
Returns(result) ==
    /\ ret' = result
    /\ UNCHANGED req

\* the handler of the request r goes on to its writes, in the first free
\* slot, with the number it settled on
Settles(p, r, invoiceNumber) ==
    /\ req' = [req EXCEPT ![p] = [settled |-> invoiceNumber] @@ r]
    /\ ret' = ret

\* the handler in slot p ends with its writes
Ends(p, result) ==
    /\ req' = [req EXCEPT ![p] = NoRequest]
    /\ ret' = result

FreeSlot(p) ==
    /\ req[p] = NoRequest
    /\ \A q \in 1..(p - 1) : req[q] # NoRequest

\* a createInvoice request arrives, and the handler runs up to its
\* INSERTs: the customer, the number of the request looked up, or a new
\* number
CreateInvoiceReads ==
    \E p \in Slots, r \in NumberRequests :
       /\ FreeSlot(p)
       /\ r.call = "createInvoice"
       /\ Cardinality(db.invoices)
            + Cardinality({ q \in Slots : req[q].call = "createInvoice" }) < MaxInvoices
       /\ IF CreateInvoiceError(r, db) # ""
          THEN Returns([error |-> CreateInvoiceError(r, db)])
          ELSE IF r.invoiceNumber # <<>>
          THEN Settles(p, r, r.invoiceNumber)
          ELSE \E n \in NewInvoiceNumbers(db) : Settles(p, r, n)
       /\ fn' = "createInvoice"
       /\ UNCHANGED <<locals, prev, db>>

\* the INSERTs of createInvoice
CreateInvoiceWrites ==
    \E p \in Slots :
       /\ req[p].call = "createInvoice"
       /\ IF UniqueFails(db, <<>>, req[p].settled)
          THEN /\ Ends(p, [error |-> "UNIQUE constraint failed"])
               /\ db' = db
          ELSE /\ db' = InsertInvoice(db, <<"inv", Cardinality(db.invoices) + 1>>,
                                      req[p].settled, req[p],
                                      prev[TotalsArguments(req[p], db.settings)])
               /\ Ends(p, [id |-> <<"inv", Cardinality(db.invoices) + 1>>])
       /\ fn' = "createInvoice"
       /\ UNCHANGED <<locals, prev>>

\* an updateInvoice request with items arrives, and the handler runs up
\* to its UPDATE: the invoice, the number of the request looked up
UpdateInvoiceReads ==
    \E p \in Slots, r \in NumberRequests :
       /\ FreeSlot(p)
       /\ r.call = "updateInvoice"
       /\ IF UpdateInvoiceError(r, db) # ""
          THEN Returns([error |-> UpdateInvoiceError(r, db)])
          ELSE Settles(p, r, IF r.invoiceNumber # <<>> THEN r.invoiceNumber
                             ELSE (CHOOSE i \in db.invoices : i.id = r.id).invoiceNumber)
       /\ fn' = "updateInvoice"
       /\ UNCHANGED <<locals, prev, db>>

\* the UPDATE, the DELETEs and the INSERTs of updateInvoice
UpdateInvoiceWrites ==
    \E p \in Slots :
       /\ req[p].call = "updateInvoice"
       /\ IF UniqueFails(db, req[p].id, req[p].settled)
          THEN /\ Ends(p, [error |-> "UNIQUE constraint failed"])
               /\ db' = db
          ELSE /\ db' = FullUpdate(db, req[p].id, req[p], req[p].settled,
                                   prev[TotalsArguments(req[p], db.settings)])
               /\ Ends(p, [id |-> req[p].id])
       /\ fn' = "updateInvoice"
       /\ UNCHANGED <<locals, prev>>

\* a publishInvoice request arrives, and the handler runs up to its
\* UPDATE: the invoice, and for a draft with a DRAFT- number the next
\* number
PublishInvoiceReads ==
    \E p \in Slots, r \in NumberRequests :
       /\ FreeSlot(p)
       /\ r.call = "publishInvoice"
       /\ IF GetInvoiceById(db, r.id) = NoInvoice
          THEN Returns([error |-> "Invoice not found"])
          ELSE IF GetInvoiceById(db, r.id).status # "draft"
          THEN Returns([id |-> r.id])
          ELSE Settles(p, r, PublishedNumber(db, GetInvoiceById(db, r.id)))
       /\ fn' = "publishInvoice"
       /\ UNCHANGED <<locals, prev, db>>

\* UPDATE invoices SET invoice_number = ?, status = 'published', or SET
\* status = 'published' alone
Published(d, id, invoiceNumber) ==
    [d EXCEPT !.invoices =
        { IF i.id = id
          THEN [i EXCEPT !.status = "published",
                         !.invoiceNumber = IF invoiceNumber = <<>> THEN @
                                           ELSE invoiceNumber]
          ELSE i : i \in @ }]

\* the UPDATE of publishInvoice
PublishInvoiceWrites ==
    \E p \in Slots :
       /\ req[p].call = "publishInvoice"
       /\ IF req[p].settled # <<>> /\ UniqueFails(db, req[p].id, req[p].settled)
          THEN /\ Ends(p, [error |-> "UNIQUE constraint failed"])
               /\ db' = db
          ELSE /\ db' = Published(db, req[p].id, req[p].settled)
               /\ Ends(p, [id |-> req[p].id])
       /\ fn' = "publishInvoice"
       /\ UNCHANGED <<locals, prev>>

NextNumbers ==
    \/ CreateInvoiceReads \/ CreateInvoiceWrites
    \/ UpdateInvoiceReads \/ UpdateInvoiceWrites
    \/ PublishInvoiceReads \/ PublishInvoiceWrites

SpecNumbers == InitNumbers /\ [][NextNumbers]_vars

\* C24: no two stored invoices carry the same invoice number, whatever the
\* order of the reads and writes of concurrent createInvoice,
\* updateInvoice and publishInvoice requests and whatever the numbering
\* pattern; so the number a publishInvoice has written is the number of
\* no other invoice.
C24_InvoiceNumbersUnique ==
    \A i \in db.invoices : \A j \in db.invoices :
        i.invoiceNumber = j.invoiceNumber => i.id = j.id

\* C24 witness: under a pattern without {SEQ} one invoice is published
\* under the number of the pattern, and the publishInvoice of a second
\* draft, which settled on the same number, has failed.
C24_Witness ==
    /\ fn = "publishInvoice"
    /\ ret = [error |-> "UNIQUE constraint failed"]
    /\ Cardinality(db.invoices) = 2
    /\ \E i \in db.invoices :
          i.status = "published" /\ i.invoiceNumber = <<"INV-{YYYY}", 0>>
    /\ \E i \in db.invoices : i.status = "draft" /\ i.invoiceNumber[1] = "DRAFT"

----------------------------------------------------------------------------
(* The life of an invoice: createInvoice, updateInvoice without items,     *)
(* publishInvoice and unpublishInvoice, each handler as a whole, one       *)
(* request after the other.                                                *)

\* createInvoice with a status or none and with a number or none,
\* updateInvoice with a status alone, publishInvoice, unpublishInvoice
DraftRequests ==
    { [call |-> "createInvoice", customerId |-> "cust-1", invoiceNumber |-> n,
       status |-> st, taxDefinitionId |-> ""] @@ Omitting(NumberedTotalsRequest, {}) :
        n \in { <<>>, <<"INV", 1>> }, st \in { "", "sent" } }
    \cup { UpdateInvoiceRequest(id, <<>>, st, <<>>, NumberedTotalsRequest, {}) :
             id \in InvoiceIds, st \in { "sent", "draft" } }
    \cup { [call |-> c, id |-> id] :
             c \in { "publishInvoice", "unpublishInvoice" }, id \in InvoiceIds }

\* a request arrives, once the request before is handled
SubmitDrafts ==
    /\ req = NoCall \/ fn # "none"
    /\ \E r \in DraftRequests :
          /\ r.call = "createInvoice" => Cardinality(db.invoices) < MaxInvoices
          /\ req' = r
    /\ fn' = "none"
    /\ ret' = NoCall
    /\ UNCHANGED <<locals, prev, db>>

\* publishInvoice(req.id), whole
PublishInvoice ==
    /\ fn = "none"
    /\ req # NoCall
    /\ req.call = "publishInvoice"
    /\ fn' = "publishInvoice"
    /\ IF GetInvoiceById(db, req.id) = NoInvoice
       THEN ret' = [error |-> "Invoice not found"] /\ db' = db
       ELSE IF GetInvoiceById(db, req.id).status # "draft"
       THEN ret' = GetInvoiceById(db, req.id) /\ db' = db
       ELSE IF /\ PublishedNumber(db, GetInvoiceById(db, req.id)) # <<>>
               /\ UniqueFails(db, req.id, PublishedNumber(db, GetInvoiceById(db, req.id)))
       THEN ret' = [error |-> "UNIQUE constraint failed"] /\ db' = db
       ELSE /\ db' = Published(db, req.id, PublishedNumber(db, GetInvoiceById(db, req.id)))
            /\ ret' = GetInvoiceById(db', req.id)
    /\ UNCHANGED <<req, locals, prev>>

\* unpublishInvoice(req.id), whole: UPDATE invoices SET status = 'draft'
UnpublishInvoice ==
    /\ fn = "none"
    /\ req # NoCall
    /\ req.call = "unpublishInvoice"
    /\ fn' = "unpublishInvoice"
    /\ db' = SetStatus(db, req.id, "draft")
    /\ ret' = GetInvoiceById(db', req.id)
    /\ UNCHANGED <<req, locals, prev>>

InitDrafts ==
    /\ req = NoCall
    /\ Idle
    /\ prev = NoCall
    /\ db \in { [EmptyDb EXCEPT !.customers = { [id |-> "cust-1"] },
                                !.settings.invoiceNumberPattern = pattern] :
                  pattern \in Patterns }

NextDrafts ==
    SubmitDrafts \/ CreateInvoice \/ UpdateInvoice \/ PublishInvoice \/ UnpublishInvoice

SpecDrafts == InitDrafts /\ [][NextDrafts]_vars

\* C25: an invoice whose status is not "draft" does not carry a DRAFT-
\* invoice number.
C25_NoDraftNumberOutsideDraft ==
    \A i \in db.invoices : i.status # "draft" => i.invoiceNumber[1] # "DRAFT"

----------------------------------------------------------------------------
(* The policy stored with an invoice: createInvoice and updateInvoice      *)
(* with items, each handler as a whole, under default and other settings,  *)
(* for requests that give tax rate, pricing flag and rounding mode and     *)
(* for requests that leave them to the settings.                           *)

\* createInvoice without a number, updateInvoice with items
PolicyRequests ==
    { r \in CreateInvoiceRequests : r.customerId = "cust-1" /\ r.invoiceNumber = <<>> }
    \cup { UpdateInvoiceRequest(id, r.items, "", <<>>, r, o) :
             id \in InvoiceIds, r \in InvoiceTotalsRequests,
             o \in { {}, PolicyFields } }

\* a request arrives, once the request before is handled; a createInvoice
\* arrives while no invoice is stored
SubmitPolicy ==
    /\ req = NoCall \/ fn # "none"
    /\ \E r \in PolicyRequests :
          /\ r.call = "createInvoice" => db.invoices = {}
          /\ req' = r
    /\ fn' = "none"
    /\ ret' = NoCall
    /\ UNCHANGED <<locals, prev, db>>

NextPolicy == SubmitPolicy \/ CreateInvoice \/ UpdateInvoice

SpecPolicy == InitStatus /\ [][NextPolicy]_vars

\* the items of a stored invoice as a request carries them: quantity, unit
\* price and the assessments with their percent and tax definition
StoredItems(invoice) ==
    [k \in 1..Len(invoice.items) |->
        Item(invoice.items[k].quantity, invoice.items[k].unitPrice,
             [j \in 1..Len(invoice.items[k].taxes) |->
                 Tax(invoice.items[k].taxes[j].percent,
                     invoice.items[k].taxes[j].taxDefinitionId)])]

\* the arguments of the totals functions as the stored invoice gives them
StoredArguments(invoice) ==
    Request(StoredItems(invoice),
            <<invoice.discountPercentage, invoice.discountAmount>>,
            invoice.taxRate, invoice.pricesIncludeTax, invoice.roundingMode)

\* the four amounts of a totals record or of an invoice
Amounts(t) == <<t.subtotal, t.discountAmount, t.taxAmount, t.total>>

\* the invoice the handler that ended last has written
Written ==
    GetInvoiceById(db, IF fn = "createInvoice"
                       THEN <<"inv", Cardinality(db.invoices)>> ELSE req.id)

\* C26: after a createInvoice, or an updateInvoice with items, that did
\* not throw, the stored tax rate (without assessments), pricing flag and
\* rounding mode are the ones the totals were computed with (the value of
\* the request, or the default of the settings when the request has
\* none), and the totals computed again from the stored items and the
\* stored policy are the stored totals.
C26_StoredPolicyMatchesComputation ==
    (/\ fn \in { "createInvoice", "updateInvoice" }
     /\ "error" \notin DOMAIN ret
     /\ req.items # <<>>) =>
        /\ ~HasPerLineTaxes(req.items) =>
               Written.taxRate = TaxRateOrDefault(req, db.settings)
        /\ Written.pricesIncludeTax = PricesIncludeTaxOrDefault(req, db.settings)
        /\ Written.roundingMode = RoundingModeOrDefault(req, db.settings)
        /\ Amounts(TotalsOfArguments(StoredArguments(Written))) = Amounts(Written)

----------------------------------------------------------------------------
(* duplicateInvoice, the handler as a whole: the stored invoice is read    *)
(* and handed to createInvoice as a request.                               *)

\* the request duplicateInvoice builds from the invoice it has read: the
\* stored items with their assessments, the stored discount, tax rate,
\* pricing flag and rounding mode, and neither number nor status
DuplicateRequest(invoice) ==
    [call |-> "createInvoice", customerId |-> invoice.customerId,
     invoiceNumber |-> <<>>, status |-> "", taxDefinitionId |-> "", omits |-> {}]
    @@ StoredArguments(invoice)

\* a duplicateInvoice request arrives, once the request before is handled
SubmitDuplicate ==
    /\ req = NoCall \/ fn # "none"
    /\ Cardinality(db.invoices) < MaxInvoices
    /\ req' \in { [call |-> "duplicateInvoice", id |-> id] : id \in InvoiceIds }
    /\ fn' = "none"
    /\ ret' = NoCall
    /\ UNCHANGED <<locals, prev, db>>

\* duplicateInvoice(req.id), whole
DuplicateInvoice ==
    /\ fn = "none"
    /\ req # NoCall
    /\ req.call = "duplicateInvoice"
    /\ fn' = "duplicateInvoice"
    /\ IF GetInvoiceById(db, req.id) = NoInvoice
       THEN ret' = NoInvoice /\ UNCHANGED <<locals, db>>
       ELSE CreateInvoiceOf(DuplicateRequest(GetInvoiceById(db, req.id)))
    /\ UNCHANGED <<req, prev>>

\* requests arrive while fewer than MaxInvoices invoices are stored
NextDuplicate ==
    \/ Cardinality(db.invoices) < MaxInvoices /\ SubmitPolicy
    \/ SubmitDuplicate
    \/ CreateInvoice \/ UpdateInvoice \/ DuplicateInvoice

SpecDuplicate == InitStatus /\ [][NextDuplicate]_vars

\* C27: the invoice a duplicateInvoice has created has the subtotal,
\* discountAmount, taxAmount and total of the invoice it was made from.
C27_DuplicatePreservesAmounts ==
    (fn = "duplicateInvoice" /\ DOMAIN ret \cap { "null", "error" } = {}) =>
        Amounts(GetInvoiceById(db, <<"inv", Cardinality(db.invoices)>>))
          = Amounts(GetInvoiceById(db, req.id))

----------------------------------------------------------------------------
(* updateInvoice with items, statement by statement: each await of the     *)
(* handler is a step of its own, a getInvoiceById of another request may   *)
(* run between two of them, and a write may throw; no statement of the     *)
(* handler opens a transaction or undoes a write.                          *)

\* the tables of d without the rows of items and taxes
WithoutRows(d) ==
    [d EXCEPT !.invoice_items = {}, !.invoice_item_taxes = {}, !.invoice_taxes = {}]

\* UPDATE invoices SET ... WHERE id = ?
UpdateRow(d, id, data, invoiceNumber, totals) ==
    [d EXCEPT !.invoices =
        { IF i.id = id THEN UpdatedInvoice(i, data, invoiceNumber, totals)
          ELSE i : i \in @ }]

\* DELETE FROM invoice_items WHERE invoice_id = ?, with the cascade
DeleteItems(d, id) ==
    [d EXCEPT !.invoice_items = { it \in @ : it.invoiceId # id },
              !.invoice_item_taxes = { t \in @ : t.invoiceItemId[1] # id }]

\* DELETE FROM invoice_taxes WHERE invoice_id = ?
DeleteTaxes(d, id) ==
    [d EXCEPT !.invoice_taxes = { t \in @ : t.invoiceId # id }]

\* one round of the loop over data.items: the INSERT of item i and the
\* INSERTs of its assessments
InsertItem(d, id, data, totals, i) ==
    [d EXCEPT
       !.invoice_items = @ \cup
          { it \in InsertItemsAndTaxes(WithoutRows(d), id, data, totals).invoice_items :
              it.id[2] = i },
       !.invoice_item_taxes = @ \cup
          { t \in InsertItemsAndTaxes(WithoutRows(d), id, data, totals).invoice_item_taxes :
              t.id[2] = i }]

\* the INSERTs into invoice_taxes after the loop
InsertTaxes(d, id, data, totals) ==
    [d EXCEPT !.invoice_taxes = @ \cup
        InsertItemsAndTaxes(WithoutRows(d), id, data, totals).invoice_taxes]

\* the statements of updateInvoice that write, in their order; "insertItem"
\* is taken once per item
WriteSteps == { "update", "deleteItems", "deleteTaxes", "insertItem", "insertTaxes" }

\* createInvoice and updateInvoice with items, each with its tax rate,
\* pricing flag and rounding mode
StepRequests == { r \in PolicyRequests : r.omits = {} }

\* a request arrives, once the handler of the one before has ended; a
\* createInvoice arrives while no invoice is stored
SubmitSteps ==
    /\ \/ req = NoCall
       \/ "pc" \notin DOMAIN req /\ fn # "none"
       \/ "pc" \in DOMAIN req /\ req.pc \in { "done", "failed", "thrown" }
    /\ \E r \in StepRequests :
          /\ r.call = "createInvoice" => db.invoices = {}
          /\ req' = r
    /\ fn' = "none"
    /\ ret' = NoCall
    /\ UNCHANGED <<locals, prev, db>>

\* updateInvoice up to its first write: getInvoiceById, the settings, the
\* totals, the look-up of the invoice number; the locals of the handler
\* are kept with the request
UpdateInvoiceBegins ==
    /\ fn = "none"
    /\ req # NoCall
    /\ req.call = "updateInvoice"
    /\ req.items # <<>>
    /\ fn' = "updateInvoice"
    /\ IF UpdateInvoiceError(req, db) # ""
       THEN /\ ret' = [error |-> UpdateInvoiceError(req, db)]
            /\ req' = [pc |-> "thrown"] @@ req
       ELSE /\ ret' = NoCall
            /\ req' = [pc |-> "update", i |-> 1, at |-> "",
                       existing |-> GetInvoiceById(db, req.id),
                       totals |-> TotalsOfArguments(TotalsArguments(req, db.settings))]
                      @@ req
    /\ UNCHANGED <<locals, prev, db>>

\* the statement the handler is at runs and the handler moves to the next
UpdateInvoiceWrite ==
    /\ "pc" \in DOMAIN req
    /\ req.pc \in WriteSteps
    /\ fn' = "updateInvoice"
    /\ db' = CASE req.pc = "update" ->
                    UpdateRow(db, req.id, req,
                              IF req.invoiceNumber # <<>> THEN req.invoiceNumber
                              ELSE req.existing.invoiceNumber, req.totals)
               [] req.pc = "deleteItems" -> DeleteItems(db, req.id)
               [] req.pc = "deleteTaxes" -> DeleteTaxes(db, req.id)
               [] req.pc = "insertItem" ->
                    InsertItem(db, req.id, req, req.totals, req.i)
               [] req.pc = "insertTaxes" ->
                    InsertTaxes(db, req.id, req, req.totals)
    /\ req' = CASE req.pc = "update" -> [req EXCEPT !.pc = "deleteItems"]
                [] req.pc = "deleteItems" -> [req EXCEPT !.pc = "deleteTaxes"]
                [] req.pc = "deleteTaxes" -> [req EXCEPT !.pc = "insertItem"]
                [] req.pc = "insertItem" ->
                     IF req.i < Len(req.items) THEN [req EXCEPT !.i = @ + 1]
                     ELSE [req EXCEPT !.pc = "insertTaxes"]
                [] req.pc = "insertTaxes" -> [req EXCEPT !.pc = "return"]
    /\ UNCHANGED <<locals, prev, ret>>

\* the statement the handler is at throws: the handler ends there, and what
\* it has written stays written
UpdateInvoiceWriteFails ==
    /\ "pc" \in DOMAIN req
    /\ req.pc \in WriteSteps
    /\ fn' = "updateInvoice"
    /\ ret' = [error |-> "write failed"]
    /\ req' = [req EXCEPT !.pc = "failed", !.at = req.pc]
    /\ UNCHANGED <<locals, prev, db>>

\* return await getInvoiceById(id)
UpdateInvoiceReturns ==
    /\ "pc" \in DOMAIN req
    /\ req.pc = "return"
    /\ fn' = "updateInvoice"
    /\ ret' = GetInvoiceById(db, req.id)
    /\ req' = [req EXCEPT !.pc = "done"]
    /\ UNCHANGED <<locals, prev, db>>

\* getInvoiceById(id) of another request, between two statements of the
\* updateInvoice or after its end; its queries are taken together
ReadInvoice ==
    /\ "pc" \in DOMAIN req
    /\ fn' = "getInvoiceById"
    /\ ret' = GetInvoiceById(db, req.id)
    /\ UNCHANGED <<req, locals, prev, db>>

NextSteps ==
    \/ SubmitSteps \/ CreateInvoice
    \/ UpdateInvoiceBegins \/ UpdateInvoiceWrite \/ UpdateInvoiceWriteFails
    \/ UpdateInvoiceReturns \/ ReadInvoice

SpecSteps == InitStatus /\ [][NextSteps]_vars

\* the UPDATE of the updateInvoice at hand has written the row of the
\* invoice with the totals it computed
TotalsWritten ==
    /\ "pc" \in DOMAIN req
    /\ req.pc \notin { "thrown", "update" }
    /\ req.pc = "failed" => req.at # "update"

\* what getInvoiceById returns of the invoice once every statement of the
\* updateInvoice at hand has run
Completed ==
    GetInvoiceById(
        FullUpdate(db, req.id, req,
                   IF req.invoiceNumber # <<>> THEN req.invoiceNumber
                   ELSE req.existing.invoiceNumber, req.totals),
        req.id)

\* C28: a getInvoiceById that returns the totals an updateInvoice with
\* items has written, between its statements or after one of them has
\* thrown, returns with them the items and the tax rows those totals were
\* computed from.
C28_FullUpdateAtomicForReaders ==
    (fn = "getInvoiceById" /\ TotalsWritten) =>
        /\ ret.items = Completed.items
        /\ ret.taxes = Completed.taxes

----------------------------------------------------------------------------
(* Customers and their invoices under concurrent requests: createCustomer  *)
(* and deleteInvoice are one statement each, createInvoice looks the       *)
(* customer up and inserts later, deleteCustomer counts the invoices and   *)
(* deletes later.  invoices.customer_id REFERENCES customers(id); whether  *)
(* the database enforces the reference depends on the build: D1 does,      *)
(* SQLite does only under PRAGMA foreign_keys, which no statement of the   *)
(* program sets.                                                           *)

CustomerIds == { "cust-1", "cust-2" }

\* createInvoice for a customer, createCustomer, deleteInvoice,
\* deleteCustomer
CustomerRequests ==
    { [call |-> "createInvoice", customerId |-> c, invoiceNumber |-> <<>>,
       status |-> "", taxDefinitionId |-> ""] @@ Omitting(NumberedTotalsRequest, {}) :
        c \in CustomerIds }
    \cup { [call |-> "createCustomer"] }
    \cup { [call |-> "deleteInvoice", id |-> id] : id \in InvoiceIds }
    \cup { [call |-> "deleteCustomer", customerId |-> c] : c \in CustomerIds }

InitCustomers ==
    /\ req = [p \in Slots |-> NoRequest]
    /\ Idle
    /\ prev = TotalsTable({ NumberedTotalsRequest })
    /\ db \in { [foreign_keys |-> enforced] @@ EmptyDb : enforced \in BOOLEAN }

\* generateUUID() for a customer: an id that no row and no request carries
NewCustomerIds ==
    { c \in CustomerIds :
        /\ \A q \in db.customers : q.id # c
        /\ \A i \in db.invoices : i.customerId # c
        /\ \A p \in Slots : "customerId" \in DOMAIN req[p] => req[p].customerId # c }

\* generateUUID() for an invoice: an id that no row carries
NewInvoiceId == CHOOSE id \in InvoiceIds : \A i \in db.invoices : i.id # id

\* createCustomer(data), whole: one INSERT INTO customers
CreateCustomer ==
    /\ \E c \in NewCustomerIds :
          db' = [db EXCEPT !.customers = @ \cup { [id |-> c] }]
    /\ fn' = "createCustomer"
    /\ ret' = [id |-> "created"]
    /\ UNCHANGED <<req, locals, prev>>

\* deleteInvoice(id), whole: one DELETE FROM invoices; the rows of its items
\* and taxes go with it where the references are enforced
DeleteInvoice ==
    /\ \E r \in CustomerRequests :
          /\ r.call = "deleteInvoice"
          /\ db' = IF db.foreign_keys
                   THEN DeleteItemsAndTaxes(
                            [db EXCEPT !.invoices = { i \in @ : i.id # r.id }], r.id)
                   ELSE [db EXCEPT !.invoices = { i \in @ : i.id # r.id }]
    /\ fn' = "deleteInvoice"
    /\ ret' = [id |-> "deleted"]
    /\ UNCHANGED <<req, locals, prev>>

\* a createInvoice request arrives, and the handler runs up to its
\* INSERTs: getCustomerById, the settings, the totals, the number
CreateInvoiceLooksUp ==
    \E p \in Slots, r \in CustomerRequests :
       /\ FreeSlot(p)
       /\ r.call = "createInvoice"
       /\ Cardinality(db.invoices)
            + Cardinality({ q \in Slots : req[q].call = "createInvoice" }) < MaxInvoices
       /\ IF CreateInvoiceError(r, db) # ""
          THEN Returns([error |-> CreateInvoiceError(r, db)])
          ELSE \E n \in NewInvoiceNumbers(db) : Settles(p, r, n)
       /\ fn' = "createInvoice"
       /\ UNCHANGED <<locals, prev, db>>

\* INSERT INTO invoices violates the reference to customers
ReferenceFails(d, customerId) ==
    d.foreign_keys /\ \A c \in d.customers : c.id # customerId

\* the INSERTs of createInvoice
CreateInvoiceInserts ==
    \E p \in Slots :
       /\ req[p].call = "createInvoice"
       /\ IF UniqueFails(db, <<>>, req[p].settled)
          THEN /\ Ends(p, [error |-> "UNIQUE constraint failed"])
               /\ db' = db
          ELSE IF ReferenceFails(db, req[p].customerId)
          THEN /\ Ends(p, [error |-> "FOREIGN KEY constraint failed"])
               /\ db' = db
          ELSE /\ db' = InsertInvoice(db, NewInvoiceId, req[p].settled, req[p],
                                      prev[TotalsArguments(req[p], db.settings)])
               /\ Ends(p, [id |-> NewInvoiceId])
       /\ fn' = "createInvoice"
       /\ UNCHANGED <<locals, prev>>

\* a deleteCustomer request arrives, and the handler counts the invoices
\* of the customer: it throws when there are any
DeleteCustomerCounts ==
    \E p \in Slots, r \in CustomerRequests :
       /\ FreeSlot(p)
       /\ r.call = "deleteCustomer"
       /\ IF { i \in db.invoices : i.customerId = r.customerId } # {}
          THEN Returns([error |-> "Cannot delete customer"])
          ELSE Settles(p, r, <<>>)
       /\ fn' = "deleteCustomer"
       /\ UNCHANGED <<locals, prev, db>>

\* DELETE FROM customers WHERE id = ?
DeleteCustomerDeletes ==
    \E p \in Slots :
       /\ req[p].call = "deleteCustomer"
       /\ IF /\ db.foreign_keys
             /\ { i \in db.invoices : i.customerId = req[p].customerId } # {}
          THEN /\ Ends(p, [error |-> "FOREIGN KEY constraint failed"])
               /\ db' = db
          ELSE /\ db' = [db EXCEPT !.customers =
                            { c \in @ : c.id # req[p].customerId }]
               /\ Ends(p, [id |-> "deleted"])
       /\ fn' = "deleteCustomer"
       /\ UNCHANGED <<locals, prev>>

NextCustomers ==
    \/ CreateCustomer \/ DeleteInvoice
    \/ CreateInvoiceLooksUp \/ CreateInvoiceInserts
    \/ DeleteCustomerCounts \/ DeleteCustomerDeletes

SpecCustomers == InitCustomers /\ [][NextCustomers]_vars

\* C29: under any interleaving of createCustomer, createInvoice,
\* deleteInvoice and deleteCustomer requests, the customer_id of every
\* stored invoice is the id of a stored customer.
C29_CustomerReferentialIntegrity ==
    \A i \in db.invoices : \E c \in db.customers : c.id = i.customerId

----------------------------------------------------------------------------
(* The discount of each line against the gross amount of the line: one    *)
(* call of either totals function on three lines, of which some are worth *)
(* little or nothing.                                                      *)

MaxLines == 3

\* quantity and unit price of the lines: a line worth 1, a line without a
\* price, a line of 0.28, a line of 0.01
LineKinds ==
    { <<FromInt(2), Dec(5, 10)>>, <<FromInt(1), Zero>>,
      <<FromInt(1), Dec(28, 100)>>, <<FromInt(1), Dec(1, 100)>> }

\* discountPercentage and discountAmount: none, an amount, a percentage
LineDiscountsGiven ==
    { <<Zero, Zero>>, <<Zero, Dec(12, 1000)>>, <<FromInt(80), Zero>> }

\* the lines without assessments, and with one on the first line
LineLists == SeqsOfLen({ Item(k[1], k[2], <<>>) : k \in LineKinds }, MaxLines)

LineRequests ==
    { Request(its, d, FromInt(10), FALSE, "line") :
        its \in LineLists, d \in LineDiscountsGiven }
    \cup { Request([its EXCEPT ![1].taxes = SingleTax], d, Zero, FALSE, "line") :
             its \in LineLists, d \in LineDiscountsGiven }

InitLines ==
    /\ req \in LineRequests
    /\ Idle
    /\ prev = NoCall
    /\ db = EmptyDb

SpecLines == InitLines /\ [][Next]_vars

\* C30: where the discount is distributed over lines whose gross amounts
\* are all non-negative, the discount of every line, the last one with the
\* residual included, is at least 0 and at most the gross amount of the line.
C30_LineDiscountWithinLine ==
    (/\ fn # "none"
     /\ lineDiscounts # <<>>
     /\ \A i \in 1..Len(lineGrosses) : FLe(Zero, lineGrosses[i])) =>
        \A i \in 1..Len(lineDiscounts) :
           /\ FLe(Zero, lineDiscounts[i])
           /\ FLe(lineDiscounts[i], lineGrosses[i])

============================================================================
